---- MODULE Spec2Model ----
(***************************************************************************)
(* Model of the bytecode-analysis core of defi-analyser                    *)
(* (src/core/analyzers/bytecode_analyzer.py and                            *)
(* src/core/analyzers/advanced_proxy_analyzer.py).                         *)
(*                                                                         *)
(* Bytes are integers 0..255, a bytecode is a sequence of bytes; the byte  *)
(* at offset o of bytecode c is c[o + 1].  Helper methods that the source  *)
(* calls but does not define are modelled from the design document and     *)
(* are marked so in MODEL_MAP.json.                                        *)
(***************************************************************************)
EXTENDS Integers, Sequences, FiniteSets, TLC

VARIABLES
    bytecode,       \* the raw runtime bytecode under analysis
    dpc,            \* disassembler: offset of the next byte to decode
    stream,         \* disassembler: instructions emitted so far
    dstatus,        \* disassembler: "run" | "done" | "EmptyBytecodeError" | "idle"
    path_conditions,\* SymbolicExecutor.path_conditions
    pending,        \* work-list of pending entries (offsets to explore from)
    started,        \* number of entries pulled from the work-list so far
    max_paths,      \* the budget's max_paths
    wphase,         \* per worker: "idle" | "run" (inside _execute_path)
    wstate,         \* per worker: the execution state dict (pc, stack)
    wcur,           \* per worker: the path dict being built by _execute_path
    paths,          \* explore_paths: the list of paths, in completion order
    xphase,         \* "off" | "explore" | "explored" | "reported"
    vi,             \* find_vulnerabilities: number of paths already checked
    vulnerabilities,\* find_vulnerabilities: the list of findings
    merged,         \* history: every finding handed to the list so far
    blocks,         \* build_cfg: the blocks returned by _identify_basic_blocks
    bi,             \* build_cfg: index of the next block of the loop
    cfg,            \* build_cfg: the CFG object (blocks, edges, entry_points)
    cphase,         \* "off" | "identify" | "connect" | "built"
    ci,             \* security scan: index of the next check of the table
    check_results,  \* security scan: results, check name -> result
    scan_vulnerabilities, \* security scan: results that are vulnerable
    sphase,         \* "off" | "scan" | "scanned"
    proxy_slots,    \* collision check: the proxy's slot dict, as its items
    impl_slots,     \* collision check: the implementation's slot dict
    ki,             \* collision check: index of the next proxy slot
    collisions,     \* collision check: the result dict
    kphase,         \* "off" | "direct" | "returned"
    chain,          \* the node: address -> deployed runtime code
    cache,          \* BytecodeAnalyzer.cache: cache key -> analysis
    tpc,            \* per request: position inside analyze_bytecode
    targ,           \* per request: its arguments (address, deep_analysis)
    tcode,          \* per request: the runtime_code it fetched
    tresult,        \* per request: the value it returned
    computations,   \* history: cache key -> analyses started for that key
    verdicts,       \* the solver: branch (jump offset, side) -> its report
    checked,        \* analyze_path_conditions: the solver's report per path
    feasible_paths, \* analyze_path_conditions: paths found feasible
    infeasible_paths, \* analyze_path_conditions: paths found infeasible
    aphase,         \* "off" | "analyze" | "analyzed" | "aborted"
    constraints,    \* analyze_path_conditions: path id -> constraints
    fork_instances, \* MultiChainAdapter: chain -> (fork id -> fork instance)
    forks_created,  \* history: number of fork instances initialized so far
    stages,         \* execute_stages: the input list of stages
    si,             \* execute_stages: number of stages the loop is done with
    results,        \* execute_stages: the ExecutionResult
    executed,       \* history: ids of the stages handed to _execute_stage
    stage_results,  \* history: what _execute_stage returned for them
    gphase,         \* "off" | "loop" | "returned" | "raised"
    transactions,   \* BatchAnalyzer: the input list of transactions
    order,          \* _determine_execution_order: the order returned
    dependencies,   \* _calculate_dependencies: the dict returned
    groups,         \* _group_compatible_transactions: groups
    current_group,  \* _group_compatible_transactions: current_group
    gi,             \* _group_compatible_transactions: transactions done
    bphase,         \* "off" | "input" | "ordered" | "done" | "grouped"
    analysis_history, \* ProtocolAnalyzer.analysis_history: key -> analyses
    all_added,      \* history: every analysis ever added, in order
    profit_results, \* _identify_best_opportunity: the results argument
    options,        \* _identify_best_opportunity: the options argument
    best,           \* _identify_best_opportunity: the dict returned
    pphase          \* "off" | "call" | "returned"

varsDis == <<dpc, stream, dstatus>>
varsExec == <<path_conditions, pending, started, max_paths, wphase, wstate,
              wcur, paths, xphase, vi, vulnerabilities, merged>>
varsCfg == <<blocks, bi, cfg, cphase>>
varsScan == <<ci, check_results, scan_vulnerabilities, sphase>>
varsColl == <<proxy_slots, impl_slots, ki, collisions, kphase>>
varsCache == <<chain, cache, tpc, targ, tcode, tresult, computations>>
varsSolve == <<verdicts, checked, feasible_paths, infeasible_paths, aphase,
              constraints>>
varsCore == <<varsCfg, varsScan, varsColl, varsCache, varsSolve>>
varsFork == <<fork_instances, forks_created>>
varsStage == <<stages, si, results, executed, stage_results, gphase>>
varsBatch == <<transactions, order, dependencies, groups, current_group, gi,
              bphase>>
varsHist == <<analysis_history, all_added>>
varsProfit == <<profit_results, options, best, pphase>>
varsRest == <<varsBatch, varsHist, varsProfit>>
varsMore == <<varsFork, varsStage, varsRest>>
varsAux == <<varsCore, varsMore>>
vars == <<bytecode, varsDis, varsExec, varsAux>>

\* Values of the variables of the components a specification leaves out.
CfgIdle ==
    /\ blocks = <<>>
    /\ bi = 0
    /\ cfg = <<>>
    /\ cphase = "off"

ScanIdle ==
    /\ ci = 0
    /\ check_results = <<>>
    /\ scan_vulnerabilities = <<>>
    /\ sphase = "off"

CollIdle ==
    /\ proxy_slots = <<>>
    /\ impl_slots = <<>>
    /\ ki = 0
    /\ collisions = <<>>
    /\ kphase = "off"

CacheIdle ==
    /\ chain = <<>>
    /\ cache = <<>>
    /\ tpc = <<>>
    /\ targ = <<>>
    /\ tcode = <<>>
    /\ tresult = <<>>
    /\ computations = <<>>

\* No branch has a report of its own (every branch counts as satisfiable) and
\* analyze_path_conditions is not run.
SolveIdle ==
    /\ verdicts = <<>>
    /\ checked = <<>>
    /\ feasible_paths = <<>>
    /\ infeasible_paths = <<>>
    /\ aphase = "off"
    /\ constraints = <<>>

ForkIdle ==
    /\ fork_instances = <<>>
    /\ forks_created = 0

\* The components outside the bytecode analyzer are not in use.
StageIdle ==
    /\ stages = <<>>
    /\ si = 0
    /\ results = <<>>
    /\ executed = <<>>
    /\ stage_results = <<>>
    /\ gphase = "off"

BatchIdle ==
    /\ transactions = <<>>
    /\ order = <<>>
    /\ dependencies = <<>>
    /\ groups = <<>>
    /\ current_group = <<>>
    /\ gi = 0
    /\ bphase = "off"

HistIdle ==
    /\ analysis_history = <<>>
    /\ all_added = <<>>

ProfitIdle ==
    /\ profit_results = <<>>
    /\ options = <<>>
    /\ best = <<>>
    /\ pphase = "off"

RestIdle == BatchIdle /\ HistIdle /\ ProfitIdle

MoreIdle == ForkIdle /\ StageIdle /\ RestIdle

AuxIdle == CfgIdle /\ ScanIdle /\ CollIdle /\ CacheIdle /\ SolveIdle /\ MoreIdle

(***************************************************************************)
(* Bounds of the model.                                                    *)
(***************************************************************************)
MaxCodeLen == 4

(***************************************************************************)
(* Generic helpers.                                                        *)
(***************************************************************************)
Range(s) == {s[i] : i \in 1..Len(s)}

Min(a, b) == IF a <= b THEN a ELSE b

Last(s) == s[Len(s)]

\* All sequences over alphabet A of length 0..n.
SeqsUpTo(A, n) == UNION {[1..k -> A] : k \in 0..n}

(***************************************************************************)
(* Opcodes.                                                                *)
(***************************************************************************)
\* Mnemonic of an opcode byte; every byte that is no known opcode is INVALID.
OpName(b) ==
    CASE b = 0 -> "STOP"
      [] b = 1 -> "ADD"
      [] b = 3 -> "SUB"
      [] b = 80 -> "POP"
      [] b = 84 -> "SLOAD"
      [] b = 85 -> "SSTORE"
      [] b = 86 -> "JUMP"
      [] b = 87 -> "JUMPI"
      [] b = 91 -> "JUMPDEST"
      [] b \in 96..127 -> "PUSH"
      [] b = 241 -> "CALL"
      [] b = 243 -> "RETURN"
      [] b = 244 -> "DELEGATECALL"
      [] b = 253 -> "REVERT"
      [] b = 255 -> "SELFDESTRUCT"
      [] OTHER -> "INVALID"

\* Number of immediate bytes an opcode byte announces (PUSH1..PUSH32).
PushWidth(b) == IF b \in 96..127 THEN b - 95 ELSE 0

\* Byte at offset o, zero beyond the end of the code (zero padding).
ByteAt(code, o) == IF o < Len(code) THEN code[o + 1] ELSE 0

(***************************************************************************)
(* Disassembler.                                                           *)
(***************************************************************************)
\* _decode_instruction(bytecode, pc): the instruction at offset pc.  A PUSHn
\* takes the n following bytes as immediate, zero-padded when the code ends
\* first, and its size is clipped at the end of the code.
DecodeInstruction(code, pc) ==
    LET b == code[pc + 1]
        n == PushWidth(b)
    IN  [offset |-> pc,
         opcode |-> b,
         name   |-> OpName(b),
         imm    |-> [i \in 1..n |-> ByteAt(code, pc + i)],
         size   |-> Min(1 + n, Len(code) - pc)]

\* A plausible slip: the program counter advances by the opcode byte only.
NextPcOpcodeOnly(pc, ins) == pc + 1

\* state['pc'] += instruction.size
NextPc(pc, ins) == pc + ins.size

\* Linear sweep of the whole byte range (used to find the basic blocks).
RECURSIVE DisassembleFrom(_, _)
DisassembleFrom(code, pc) ==
    IF pc >= Len(code) THEN <<>>
    ELSE LET ins == DecodeInstruction(code, pc)
         IN  <<ins>> \o DisassembleFrom(code, NextPc(pc, ins))

Disassemble(code) == DisassembleFrom(code, 0)

(***************************************************************************)
(* Symbolic executor: SymbolicExecutor.explore_paths, _execute_path and    *)
(* find_vulnerabilities.                                                   *)
(***************************************************************************)
MaxChunks == 4
MaxPaths == 5
NumWorkers == 2

\* The EVM stack limit.
StackLimit == 1024

Workers == 1..NumWorkers

\* Value of a PUSH immediate (big-endian), saturated at 65536: no larger
\* value is an offset of any code, and the model pushes no larger slot.
RECURSIVE ImmValue(_)
ImmValue(imm) ==
    IF Len(imm) = 0 THEN 0
    ELSE Min(65536, 256 * ImmValue(SubSeq(imm, 1, Len(imm) - 1)) + imm[Len(imm)])

\* Offsets of the JUMPDEST instructions of the code (a 0x5B byte inside a
\* PUSH immediate is data, not a JUMPDEST).
JumpDests(code) ==
    {ins.offset : ins \in {i \in Range(Disassemble(code)) : i.name = "JUMPDEST"}}

\* Operands an instruction takes from the stack.
Pops(name) ==
    CASE name \in {"ADD", "SUB", "SSTORE", "JUMPI", "RETURN", "REVERT"} -> 2
      [] name \in {"POP", "SLOAD", "JUMP", "SELFDESTRUCT"} -> 1
      [] name = "CALL" -> 7
      [] name = "DELEGATECALL" -> 6
      [] OTHER -> 0

\* Values an instruction leaves on the stack.
Pushes(name) ==
    IF name \in {"ADD", "SUB", "SLOAD", "PUSH", "CALL", "DELEGATECALL"}
    THEN 1 ELSE 0

\* The operand a PUSH immediately before an instruction feeds it: the
\* immediate's value, or a symbolic value (negative, one per offset).
Operand(instructions, ins) ==
    IF Len(instructions) > 0 /\ Last(instructions).name = "PUSH"
    THEN ImmValue(Last(instructions).imm)
    ELSE 0 - (ins.offset + 1)

\* _handle_branch(state, instruction): the successor offsets of a JUMP or
\* JUMPI.  The target is known when a PUSH immediately feeds the jump and is
\* a successor only when it is a JUMPDEST; a JUMPI also continues at the
\* next instruction.  An unresolved or invalid JUMP has no successor.
HandleBranch(code, instructions, ins) ==
    LET target == Operand(instructions, ins)
        taken  == IF target \in JumpDests(code) THEN <<target>> ELSE <<>>
    IN  IF ins.name = "JUMPI" THEN taken \o <<ins.offset + ins.size>>
        ELSE taken

\* The solver's reports.
Verdicts == {"sat", "unsat", "timeout"}

\* The solver's report on the branch of the JUMPI at an offset, side "taken"
\* or "fallthrough".
Verdict(v, branch) == IF branch \in DOMAIN v THEN v[branch] ELSE "sat"

\* _handle_branch(state, instruction) with the solver: a successor of a JUMPI
\* is returned only when the solver reports its branch satisfiable.
FeasibleBranches(code, instructions, ins, v) ==
    LET target == Operand(instructions, ins)
        taken  == IF target \in JumpDests(code) THEN <<target>> ELSE <<>>
    IN  IF ins.name = "JUMPI"
        THEN (IF Verdict(v, <<ins.offset, "taken">>) = "sat" THEN taken ELSE <<>>)
               \o (IF Verdict(v, <<ins.offset, "fallthrough">>) = "sat"
                   THEN <<ins.offset + ins.size>> ELSE <<>>)
        ELSE taken

\* The empty dict.
EmptyDict == [x \in {} |-> <<>>]

\* _handle_storage(state, instruction, path): record the access under its
\* slot in path['effects']['storage'].
HandleStorage(path, ins) ==
    LET slot == Operand(path.instructions, ins)
        st   == path.effects.storage
        acc  == [kind |-> IF ins.name = "SLOAD" THEN "read" ELSE "write",
                 pc   |-> ins.offset]
    IN  [path EXCEPT !.effects.storage =
            [s \in DOMAIN st \cup {slot} |->
                IF s = slot
                THEN (IF s \in DOMAIN st THEN Append(st[s], acc) ELSE <<acc>>)
                ELSE st[s]]]

\* _handle_call(state, instruction, path): record the call in
\* path['effects']['calls'].
HandleCall(path, ins) ==
    [path EXCEPT !.effects.calls =
        Append(@, [kind |-> ins.name, pc |-> ins.offset])]

\* The path dict _execute_path starts from.
NewPath(conds, state) ==
    [id           |-> Len(conds),
     instructions |-> <<>>,
     condition    |-> state.path_condition,
     effects      |-> [storage |-> EmptyDict, calls |-> <<>>, events |-> <<>>],
     branches     |-> <<>>]

\* The execution state explore_paths starts from.
InitialState ==
    [pc |-> 0, stack |-> <<>>, memory |-> EmptyDict, storage |-> EmptyDict,
     path_condition |-> TRUE]

\* A plausible slip: only writes are handed to _handle_storage.
ExecuteInstructionWritesOnly(path, ins) ==
    LET p1 == IF ins.name = "SSTORE" THEN HandleStorage(path, ins) ELSE path
        p2 == IF ins.name \in {"CALL", "DELEGATECALL"} THEN HandleCall(p1, ins)
              ELSE p1
    IN  [p2 EXCEPT !.instructions = Append(@, ins)]

\* The body of the loop of _execute_path below the branch handling: record
\* storage accesses and calls, then append the instruction.
ExecuteInstruction(path, ins) ==
    LET p1 == IF ins.name \in {"SSTORE", "SLOAD"} THEN HandleStorage(path, ins)
              ELSE path
        p2 == IF ins.name \in {"CALL", "DELEGATECALL"} THEN HandleCall(p1, ins)
              ELSE p1
    IN  [p2 EXCEPT !.instructions = Append(@, ins)]

(***************************************************************************)
(* Detection rules applied to one path dict.  Each yields a sequence of    *)
(* zero or one finding.  Severity and confidence are in hundredths.        *)
(***************************************************************************)
Accesses(path, kind) ==
    UNION {{[slot |-> s, pc |-> a.pc] :
               a \in {b \in Range(path.effects.storage[s]) : b.kind = kind}} :
           s \in DOMAIN path.effects.storage}

\* Read of slot s, then an external call, then a write of slot s.
ReentrancyHits(path) ==
    {[slot |-> t[1].slot, call |-> t[2].pc, write |-> t[3].pc] :
        t \in {u \in Accesses(path, "read") \X Range(path.effects.calls)
                        \X Accesses(path, "write") :
                  /\ u[3].slot = u[1].slot
                  /\ u[1].pc < u[2].pc
                  /\ u[2].pc < u[3].pc}}

\* A guard check between the call and the write: a read of another slot.
Guarded(path, hit) ==
    \E g \in Accesses(path, "read") :
        g.slot # hit.slot /\ hit.call < g.pc /\ g.pc < hit.write

MinOf(S) == CHOOSE x \in S : \A y \in S : x <= y

\* _check_reentrancy(path)
CheckReentrancy(path) ==
    LET hits == ReentrancyHits(path)
    IN  IF hits = {} THEN <<>>
        ELSE <<[kind       |-> "Reentrancy",
                location   |-> MinOf({h.call : h \in hits}),
                severity   |-> IF \A h \in hits : Guarded(path, h) THEN 35 ELSE 70,
                confidence |-> 80,
                path       |-> path.id]>>

\* A CALL whose result no REVERT and no branch consumes before the next
\* external effect of the path.
UncheckedCalls(path) ==
    {c.pc : c \in {d \in Range(path.effects.calls) :
        /\ d.kind = "CALL"
        /\ LET later == {e.pc : e \in {f \in Range(path.effects.calls) : f.pc > d.pc}}
                            \cup {w.pc : w \in {x \in Accesses(path, "write") : x.pc > d.pc}}
           IN  /\ ~ \E i \in 1..Len(path.instructions) :
                      /\ path.instructions[i].name = "REVERT"
                      /\ path.instructions[i].offset > d.pc
                      /\ \A l \in later : path.instructions[i].offset < l
               /\ ~ (path.branches # <<>> /\ later = {})}}

\* _check_unchecked_calls(path)
CheckUncheckedCalls(path) ==
    LET calls == UncheckedCalls(path)
    IN  IF calls = {} THEN <<>>
        ELSE <<[kind       |-> "UncheckedExternalCall",
                location   |-> MinOf(calls),
                severity   |-> 50,
                confidence |-> 60,
                path       |-> path.id]>>

\* _check_overflow(path): no detection logic, never a finding.
CheckOverflow(path) == <<>>

\* A plausible slip: the reentrancy check is left out of the loop body.
PathFindingsNoReentrancy(path) ==
    CheckOverflow(path) \o CheckUncheckedCalls(path)

\* The body of the loop of find_vulnerabilities: the findings of one path,
\* appended in the order overflow, reentrancy, unchecked call.
PathFindings(path) ==
    CheckOverflow(path) \o CheckReentrancy(path) \o CheckUncheckedCalls(path)

(***************************************************************************)
(* Exploration as a state machine.  A worker pulls an entry from the       *)
(* work-list, runs _execute_path one instruction at a time and hands the   *)
(* path to the list of paths.  explore_paths is the one-worker case.       *)
(***************************************************************************)
ExecIdle ==
    /\ path_conditions = <<>>
    /\ pending = <<>>
    /\ started = 0
    /\ max_paths = 0
    /\ wphase = [w \in Workers |-> "idle"]
    /\ wstate = [w \in Workers |-> InitialState]
    /\ wcur = [w \in Workers |-> NewPath(<<>>, InitialState)]
    /\ paths = <<>>
    /\ xphase = "off"
    /\ vi = 0
    /\ vulnerabilities = <<>>
    /\ merged = {}

DisIdle ==
    /\ dpc = 0
    /\ stream = <<>>
    /\ dstatus = "idle"

\* Concatenation of a sequence of byte chunks.
RECURSIVE Flatten(_)
Flatten(chunks) ==
    IF Len(chunks) = 0 THEN <<>> ELSE Head(chunks) \o Flatten(Tail(chunks))

\* Byte chunks the executor is exercised on: PUSH1 0 SLOAD, PUSH1 0 SSTORE,
\* PUSH1 3 SLOAD, PUSH1 3 SSTORE, PUSH1 3 JUMPI, CALL, JUMPDEST, SSTORE.
ExecChunks == {<<96, 0, 84>>, <<96, 0, 85>>, <<96, 3, 84>>, <<96, 3, 85>>,
               <<96, 3, 87>>, <<241>>, <<91>>, <<85>>}

ExecCodes == {Flatten(c) : c \in SeqsUpTo(ExecChunks, MaxChunks) \ {<<>>}}

\* State at the start of explore_paths: the entry at offset 0 is pending.
ExploreStart(budget) ==
    /\ path_conditions = <<>>
    /\ pending = <<0>>
    /\ started = 0
    /\ max_paths = budget
    /\ wphase = [w \in Workers |-> "idle"]
    /\ wstate = [w \in Workers |-> InitialState]
    /\ wcur = [w \in Workers |-> NewPath(<<>>, InitialState)]
    /\ paths = <<>>
    /\ xphase = "explore"
    /\ vi = 0
    /\ vulnerabilities = <<>>
    /\ merged = {}

ExecInit ==
    /\ bytecode \in ExecCodes
    /\ DisIdle
    /\ AuxIdle
    /\ ExploreStart(MaxPaths)

\* _has_unexplored_paths(state) holds: the newest pending entry becomes the
\* state's pc (depth first) and _execute_path creates its path dict.
Pull(w) ==
    /\ xphase = "explore"
    /\ wphase[w] = "idle"
    /\ pending # <<>>
    /\ started < max_paths
    /\ pending' = SubSeq(pending, 1, Len(pending) - 1)
    /\ started' = started + 1
    /\ wstate' = [wstate EXCEPT ![w].pc = Last(pending)]
    /\ wcur' = [wcur EXCEPT ![w] = NewPath(path_conditions, wstate[w])]
    /\ wphase' = [wphase EXCEPT ![w] = "run"]
    /\ UNCHANGED <<bytecode, varsAux, varsDis, path_conditions, max_paths, paths, xphase,
                   vi, vulnerabilities, merged>>

\* One turn of the loop of _execute_path with pc < len(bytecode).
Step(w) ==
    /\ wphase[w] = "run"
    /\ wstate[w].pc < Len(bytecode)
    /\ LET ins == DecodeInstruction(bytecode, wstate[w].pc)
           branches == IF ins.name \in {"JUMP", "JUMPI"}
                       THEN FeasibleBranches(bytecode, wcur[w].instructions,
                                             ins, verdicts)
                       ELSE <<>>
       IN  IF branches # <<>>
           THEN \* path['branches'] = branches; break; return path
                /\ pending' = pending \o branches
                /\ paths' = Append(paths, [wcur[w] EXCEPT !.branches = branches])
                /\ wcur' = [wcur EXCEPT ![w].branches = branches]
                /\ wphase' = [wphase EXCEPT ![w] = "idle"]
                /\ UNCHANGED wstate
           ELSE /\ wcur' = [wcur EXCEPT ![w] = ExecuteInstruction(wcur[w], ins)]
                /\ wstate' = [wstate EXCEPT ![w].pc = NextPc(wstate[w].pc, ins)]
                /\ UNCHANGED <<pending, paths, wphase>>
    /\ UNCHANGED <<bytecode, varsAux, varsDis, path_conditions, started, max_paths,
                   xphase, vi, vulnerabilities, merged>>

\* The loop of _execute_path ends with pc >= len(bytecode): return path.
Finish(w) ==
    /\ wphase[w] = "run"
    /\ wstate[w].pc >= Len(bytecode)
    /\ paths' = Append(paths, wcur[w])
    /\ wphase' = [wphase EXCEPT ![w] = "idle"]
    /\ UNCHANGED <<bytecode, varsAux, varsDis, path_conditions, pending, started,
                   max_paths, wstate, wcur, xphase, vi, vulnerabilities, merged>>

\* _has_unexplored_paths(state) fails: explore_paths returns paths.
ExploreDone ==
    /\ xphase = "explore"
    /\ \A w \in Workers : wphase[w] = "idle"
    /\ pending = <<>>
    /\ xphase' = "explored"
    /\ UNCHANGED <<bytecode, varsAux, varsDis, path_conditions, pending, started,
                   max_paths, wphase, wstate, wcur, paths, vi, vulnerabilities, merged>>

\* One turn of the loop of find_vulnerabilities.
CheckPath ==
    /\ xphase = "explored"
    /\ vi < Len(paths)
    /\ vulnerabilities' = vulnerabilities \o PathFindings(paths[vi + 1])
    /\ merged' = merged \cup Range(PathFindings(paths[vi + 1]))
    /\ vi' = vi + 1
    /\ UNCHANGED <<bytecode, varsAux, varsDis, path_conditions, pending, started,
                   max_paths, wphase, wstate, wcur, paths, xphase>>

\* find_vulnerabilities returns the list.
FindDone ==
    /\ xphase = "explored"
    /\ vi = Len(paths)
    /\ xphase' = "reported"
    /\ UNCHANGED <<bytecode, varsAux, varsDis, path_conditions, pending, started,
                   max_paths, wphase, wstate, wcur, paths, vi, vulnerabilities, merged>>

\* explore_paths is sequential: one worker.
ExecNext ==
    \/ Pull(1)
    \/ Step(1)
    \/ Finish(1)
    \/ ExploreDone
    \/ CheckPath
    \/ FindDone

SpecExec == ExecInit /\ [][ExecNext]_vars

(***************************************************************************)
(* The worker pool of the design: several workers pull entries from the    *)
(* shared work-list under the shared budget counter max_paths.             *)
(***************************************************************************)
PoolChunks == 2

\* _execute_path as a function of the entry offset: the path dict it returns.
RECURSIVE RunPathFrom(_, _, _)
RunPathFrom(code, pc, path) ==
    IF pc >= Len(code) THEN path
    ELSE LET ins == DecodeInstruction(code, pc)
             branches == IF ins.name \in {"JUMP", "JUMPI"}
                         THEN HandleBranch(code, path.instructions, ins)
                         ELSE <<>>
         IN  IF branches # <<>> THEN [path EXCEPT !.branches = branches]
             ELSE RunPathFrom(code, NextPc(pc, ins), ExecuteInstruction(path, ins))

RunPath(code, pc) == RunPathFrom(code, pc, NewPath(<<>>, InitialState))

\* Entries reachable from offset 0 through the branches of the paths.
RECURSIVE EntriesWithin(_, _, _)
EntriesWithin(code, entries, n) ==
    IF n = 0 THEN entries
    ELSE EntriesWithin(code,
            entries \cup UNION {Range(RunPath(code, e).branches) : e \in entries},
            n - 1)

ReachableEntries(code) == EntriesWithin(code, {0}, Len(code) + 1)

\* Programs on which the order of the pool matters.
\*   PUSH1 6; JUMPI; PUSH1 12; JUMP; JUMPDEST; PUSH1 10; JUMP; JUMPDEST; CALL;
\*   JUMPDEST; STOP            two branches, each with one successor
\*   PUSH1 3; JUMPI; JUMPDEST; CALL        both successors are offset 3
\*   PUSH1 0; SLOAD; CALL; PUSH1 0; SSTORE read, call, write of slot 0
\*   JUMPDEST; PUSH1 0; JUMPI              a loop
PoolPrograms ==
    {<<96, 6, 87, 96, 12, 86, 91, 96, 10, 86, 91, 241, 91, 0>>,
     <<96, 3, 87, 91, 241>>,
     <<96, 0, 84, 241, 96, 0, 85>>,
     <<91, 96, 0, 87>>}

PoolCodes ==
    PoolPrograms
       \cup {Flatten(c) : c \in SeqsUpTo(ExecChunks, PoolChunks) \ {<<>>}}

PoolInit ==
    /\ bytecode \in PoolCodes
    /\ DisIdle
    /\ AuxIdle
    /\ \E budget \in 1..MaxPaths : ExploreStart(budget)

\* The budget is spent while entries are pending: they are abandoned and
\* exploration returns the paths sealed so far.
BudgetStop ==
    /\ xphase = "explore"
    /\ \A w \in Workers : wphase[w] = "idle"
    /\ pending # <<>>
    /\ started >= max_paths
    /\ xphase' = "explored"
    /\ UNCHANGED <<bytecode, varsAux, varsDis, path_conditions, pending, started,
                   max_paths, wphase, wstate, wcur, paths, vi, vulnerabilities,
                   merged>>

PoolNext ==
    \/ \E w \in Workers : Pull(w)
    \/ \E w \in Workers : Step(w)
    \/ \E w \in Workers : Finish(w)
    \/ ExploreDone
    \/ BudgetStop
    \/ CheckPath
    \/ FindDone

SpecPool == PoolInit /\ [][PoolNext]_vars

(***************************************************************************)
(* Control-flow graph: ControlFlowAnalyzer.build_cfg and CFG.add_block.    *)
(***************************************************************************)
TerminatorNames ==
    {"JUMP", "JUMPI", "STOP", "RETURN", "REVERT", "SELFDESTRUCT", "INVALID"}

\* A plausible slip: blocks start only at the first instruction and at
\* JUMPDESTs, not after terminators.
BlockStartsAtLabels(instrs) ==
    {i \in 1..Len(instrs) : i = 1 \/ instrs[i].name = "JUMPDEST"}

\* Indices, in the instruction stream, at which a basic block starts: the
\* first instruction, every JUMPDEST, every instruction after a terminator.
BlockStarts(instrs) ==
    {i \in 1..Len(instrs) :
        \/ i = 1
        \/ instrs[i].name = "JUMPDEST"
        \/ instrs[i - 1].name \in TerminatorNames}

\* Why the jump that ends a run of instructions has no resolved target:
\* "IndirectJump" when no PUSH feeds it, "InvalidTarget" when the pushed
\* offset is no JUMPDEST, "InvalidOpcode" for INVALID, "none" otherwise.
FaultOf(code, instrs) ==
    LET last == Last(instrs)
    IN  IF last.name = "INVALID" THEN "InvalidOpcode"
        ELSE IF last.name \notin {"JUMP", "JUMPI"} THEN "none"
        ELSE IF Len(instrs) < 2 \/ instrs[Len(instrs) - 1].name # "PUSH"
             THEN "IndirectJump"
        ELSE IF ImmValue(instrs[Len(instrs) - 1].imm) \in JumpDests(code)
             THEN "none"
        ELSE "InvalidTarget"

\* _identify_basic_blocks(bytecode): the blocks in address order; a block's
\* id is its start offset, end is the offset after its last instruction.
IdentifyBasicBlocks(code) ==
    LET instrs == Disassemble(code)
        starts == BlockStarts(instrs)
        LastOf(i) == CHOOSE j \in i..Len(instrs) :
                        /\ \A k \in (i + 1)..j : k \notin starts
                        /\ (j = Len(instrs) \/ j + 1 \in starts)
        BlockAt(i) ==
            LET body == SubSeq(instrs, i, LastOf(i))
            IN  [id           |-> instrs[i].offset,
                 start        |-> instrs[i].offset,
                 end          |-> Last(body).offset + Last(body).size,
                 instructions |-> body,
                 fault        |-> FaultOf(code, body)]
        RECURSIVE Collect(_)
        Collect(i) ==
            IF i > Len(instrs) THEN <<>>
            ELSE <<BlockAt(i)>> \o Collect(LastOf(i) + 1)
    IN  Collect(1)

\* _find_successors(block, blocks): the blocks control may reach next.
FindSuccessors(block, all_blocks) ==
    LET last   == Last(block.instructions)
        n      == Len(block.instructions)
        At(o)  == SelectSeq(all_blocks, LAMBDA b : b.start = o)
        heads  == SelectSeq(all_blocks,
                     LAMBDA b : b.instructions[1].name = "JUMPDEST")
        jumped == CASE block.fault = "IndirectJump" -> heads
                    [] block.fault = "InvalidTarget" -> <<>>
                    [] OTHER ->
                         At(ImmValue(block.instructions[n - 1].imm))
    IN  CASE last.name = "JUMP" -> jumped
          [] last.name = "JUMPI" -> jumped \o At(block.end)
          [] last.name \in TerminatorNames -> <<>>
          [] OTHER -> At(block.end)

\* A plausible slip: the comprehension takes the id of the block itself.
AddBlockOwnId(graph, block, successors) ==
    [graph EXCEPT
        !.blocks = Append(@, block),
        !.edges  = [k \in DOMAIN @ \cup {block.id} |->
                      IF k = block.id
                      THEN [i \in 1..Len(successors) |-> block.id]
                      ELSE @[k]]]

\* CFG.add_block(block, successors)
AddBlock(graph, block, successors) ==
    [graph EXCEPT
        !.blocks = Append(@, block),
        !.edges  = [k \in DOMAIN @ \cup {block.id} |->
                      IF k = block.id
                      THEN [i \in 1..Len(successors) |-> successors[i].id]
                      ELSE @[k]]]

\* CFG(): no blocks, no edges, no entry points.
EmptyCfg == [blocks |-> <<>>, edges |-> EmptyDict, entry_points |-> <<>>]

\* _find_entry_points(cfg): the entry block is the block at offset 0.
FindEntryPoints(graph) ==
    IF \E i \in 1..Len(graph.blocks) : graph.blocks[i].id = 0
    THEN <<0>> ELSE <<>>

\* build_cfg as a function of the bytecode.
RECURSIVE ConnectFrom(_, _, _)
ConnectFrom(graph, all_blocks, i) ==
    IF i > Len(all_blocks) THEN graph
    ELSE ConnectFrom(AddBlock(graph, all_blocks[i],
                              FindSuccessors(all_blocks[i], all_blocks)),
                     all_blocks, i + 1)

BuildCfg(code) ==
    LET connected == ConnectFrom(EmptyCfg, IdentifyBasicBlocks(code), 1)
    IN  [connected EXCEPT !.entry_points = FindEntryPoints(connected)]

\* Block ids reachable from the entry points along the edges.
RECURSIVE ReachWithin(_, _, _)
ReachWithin(graph, ids, n) ==
    IF n = 0 THEN ids
    ELSE ReachWithin(graph,
            ids \cup UNION {Range(graph.edges[b]) : b \in ids \cap DOMAIN graph.edges},
            n - 1)

ReachableBlocks(graph) ==
    ReachWithin(graph, Range(graph.entry_points), Len(graph.blocks))

(***************************************************************************)
(* build_cfg as a state machine: one step identifies the blocks, one step  *)
(* per block connects it, the last step records the entry points.          *)
(***************************************************************************)
\* Bytes the CFG builder is exercised on: STOP, the byte 3 (a jump target
\* when pushed), JUMP, JUMPI, JUMPDEST and PUSH1.
CfgBytes == {0, 3, 86, 87, 91, 96}

\* PUSH1 0x5B PUSH1 1 JUMP: the pushed target is a 0x5B byte of push data.
\* JUMPDEST PUSH1 0 JUMPI STOP: a loop whose head is its own jump target.
\* PUSH1 1 PUSH1 2 ADD STOP: straight-line code.
\* SUB INVALID SUB: an unknown opcode byte between two instructions.
CfgPrograms ==
    {<<96, 91, 96, 1, 86>>, <<91, 96, 0, 87, 0>>, <<96, 1, 96, 2, 1, 0>>,
     <<3, 12, 3>>}

CfgCodes == (SeqsUpTo(CfgBytes, MaxCodeLen) \ {<<>>}) \cup CfgPrograms

CfgInit ==
    /\ bytecode \in CfgCodes
    /\ DisIdle
    /\ ExecIdle
    /\ SolveIdle
    /\ MoreIdle
    /\ ScanIdle
    /\ CollIdle
    /\ CacheIdle
    /\ blocks = <<>>
    /\ bi = 1
    /\ cfg = EmptyCfg
    /\ cphase = "identify"

\* blocks = self._identify_basic_blocks(bytecode)
CfgIdentify ==
    /\ cphase = "identify"
    /\ blocks' = IdentifyBasicBlocks(bytecode)
    /\ cphase' = "connect"
    /\ UNCHANGED <<bytecode, varsDis, varsMore, varsSolve, varsExec, bi, cfg, varsScan, varsColl,
                   varsCache>>

\* One iteration of the loop over the blocks.
CfgAddBlock ==
    /\ cphase = "connect"
    /\ bi <= Len(blocks)
    /\ cfg' = AddBlock(cfg, blocks[bi], FindSuccessors(blocks[bi], blocks))
    /\ bi' = bi + 1
    /\ UNCHANGED <<bytecode, varsDis, varsMore, varsSolve, varsExec, blocks, cphase, varsScan,
                   varsColl, varsCache>>

\* cfg.entry_points = self._find_entry_points(cfg); return cfg
CfgFindEntries ==
    /\ cphase = "connect"
    /\ bi > Len(blocks)
    /\ cfg' = [cfg EXCEPT !.entry_points = FindEntryPoints(cfg)]
    /\ cphase' = "built"
    /\ UNCHANGED <<bytecode, varsDis, varsMore, varsSolve, varsExec, blocks, bi, varsScan,
                   varsColl, varsCache>>

CfgNext == CfgIdentify \/ CfgAddBlock \/ CfgFindEntries

SpecCfg == CfgInit /\ [][CfgNext]_vars

(***************************************************************************)
(* BytecodeAnalyzer._enhanced_security_scan: the loop over the check       *)
(* table.  A checker returns one result dict; the loop stores it under the *)
(* check's name and appends it to the vulnerabilities when it is flagged   *)
(* vulnerable.  A checker that raises is logged and leaves no result.      *)
(***************************************************************************)
MaxScanLen == 3
MaxFlagged == 1

\* The keys of the check table, in the order of the dict literal.
Checks ==
    <<"reentrancy", "overflow", "access_control", "delegatecall", "tx_origin",
      "timestamp_dependency", "assembly_usage", "selfdestruct",
      "unchecked_calls", "arbitrary_jump", "dos_patterns", "front_running">>

\* The jumps without a resolved target in blocks reachable from the entry.
ReachableJumpFaults(code) ==
    LET graph == BuildCfg(code)
        reach == ReachableBlocks(graph)
    IN  {[kind     |-> IF b.fault = "IndirectJump" THEN "ArbitraryJump"
                       ELSE "InvalidJumpTarget",
          location |-> Last(b.instructions).offset] :
            b \in {x \in Range(graph.blocks) :
                      /\ x.id \in reach
                      /\ x.fault \in {"IndirectJump", "InvalidTarget"}}}

\* _check_arbitrary_jump(runtime_code, creation_code): the results the one
\* jump check of the table may return, a single dict naming one fault.
CheckArbitraryJump(code) ==
    LET faults == ReachableJumpFaults(code)
    IN  IF faults = {}
        THEN {[check |-> "arbitrary_jump", vulnerable |-> FALSE,
               kind |-> "none", location |-> 0 - 1]}
        ELSE {[check |-> "arbitrary_jump", vulnerable |-> TRUE,
               kind |-> f.kind, location |-> f.location] : f \in faults}

\* The results a checker of the table that is not the jump check may return.
CheckOther(name) ==
    {[check |-> name, vulnerable |-> v, kind |-> name, location |-> 0 - 1] :
        v \in BOOLEAN}

\* results[check_name] = result; append when result.get('vulnerable').
RecordResult(all_results, found, name, result) ==
    [results |-> [k \in DOMAIN all_results \cup {name} |->
                     IF k = name THEN result ELSE all_results[k]],
     found   |-> IF result.vulnerable THEN Append(found, result) ELSE found]

\* Checks whose outcome so far is a flagged result or a raised exception.
Flagged ==
    Len(scan_vulnerabilities) + (ci - 1 - Cardinality(DOMAIN check_results))

ScanCodes ==
    (SeqsUpTo(CfgBytes, MaxScanLen) \ {<<>>})
        \cup {<<91, 87, 91, 86>>, <<96, 3, 86, 0>>}

ScanInit ==
    /\ bytecode \in ScanCodes
    /\ DisIdle
    /\ ExecIdle
    /\ SolveIdle
    /\ MoreIdle
    /\ CfgIdle
    /\ CollIdle
    /\ CacheIdle
    /\ ci = 1
    /\ check_results = EmptyDict
    /\ scan_vulnerabilities = <<>>
    /\ sphase = "scan"

\* The iteration of the loop for the jump check.
ScanJumpCheck ==
    /\ sphase = "scan"
    /\ ci <= Len(Checks)
    /\ Checks[ci] = "arbitrary_jump"
    /\ \E result \in CheckArbitraryJump(bytecode) :
          LET r == RecordResult(check_results, scan_vulnerabilities,
                                Checks[ci], result)
          IN  /\ check_results' = r.results
              /\ scan_vulnerabilities' = r.found
    /\ ci' = ci + 1
    /\ UNCHANGED <<bytecode, varsDis, varsMore, varsSolve, varsExec, varsCfg, sphase, varsColl,
                   varsCache>>

\* The iteration of the loop for any other check.
ScanOtherCheck ==
    /\ sphase = "scan"
    /\ ci <= Len(Checks)
    /\ Checks[ci] # "arbitrary_jump"
    /\ \E result \in CheckOther(Checks[ci]) :
          /\ result.vulnerable => Flagged < MaxFlagged
          /\ LET r == RecordResult(check_results, scan_vulnerabilities,
                                   Checks[ci], result)
             IN  /\ check_results' = r.results
                 /\ scan_vulnerabilities' = r.found
    /\ ci' = ci + 1
    /\ UNCHANGED <<bytecode, varsDis, varsMore, varsSolve, varsExec, varsCfg, sphase, varsColl,
                   varsCache>>

\* The checker raises: the except clause logs and the loop goes on.
ScanCheckRaises ==
    /\ sphase = "scan"
    /\ ci <= Len(Checks)
    /\ Flagged < MaxFlagged
    /\ ci' = ci + 1
    /\ UNCHANGED <<bytecode, varsDis, varsMore, varsSolve, varsExec, varsCfg, check_results,
                   scan_vulnerabilities, sphase, varsColl, varsCache>>

\* The loop is over: the scan returns vulnerabilities and check_results.
ScanReturn ==
    /\ sphase = "scan"
    /\ ci > Len(Checks)
    /\ sphase' = "scanned"
    /\ UNCHANGED <<bytecode, varsDis, varsMore, varsSolve, varsExec, varsCfg, ci, check_results,
                   scan_vulnerabilities, varsColl, varsCache>>

ScanNext == ScanJumpCheck \/ ScanOtherCheck \/ ScanCheckRaises \/ ScanReturn

SpecScan == ScanInit /\ [][ScanNext]_vars

(***************************************************************************)
(* AdvancedProxyAnalyzer._check_storage_collisions.  A slot dict is the    *)
(* sequence of its items (slot, usage) in insertion order, keys distinct.  *)
(***************************************************************************)
MaxSlots == 2

SlotIds == 0..(MaxSlots - 1)

Shapes == {"Scalar", "Mapping"}

SlotDicts ==
    {d \in SeqsUpTo([slot : SlotIds, usage : Shapes], MaxSlots) :
        \A i, j \in 1..Len(d) : i # j => d[i].slot # d[j].slot}

\* slot in d
Keys(d) == {d[i].slot : i \in 1..Len(d)}

\* d[slot]
Lookup(d, slot) == d[CHOOSE i \in 1..Len(d) : d[i].slot = slot].usage

\* The result dict before the loop.
NoCollisions ==
    [direct_collisions |-> <<>>, potential_collisions |-> <<>>,
     risk_level |-> "LOW"]

\* Slip: an entry is appended only when the two usages differ.
DirectCollisionConflictingOnly(coll, slot, pslots, islots) ==
    IF slot \in Keys(islots) /\ Lookup(pslots, slot) # Lookup(islots, slot)
    THEN [coll EXCEPT !.direct_collisions =
            Append(@, [slot        |-> slot,
                       proxy_usage |-> Lookup(pslots, slot),
                       impl_usage  |-> Lookup(islots, slot)])]
    ELSE coll

\* Body of the loop over the proxy's slots.
DirectCollision(coll, slot, pslots, islots) ==
    IF slot \in Keys(islots)
    THEN [coll EXCEPT !.direct_collisions =
            Append(@, [slot        |-> slot,
                       proxy_usage |-> Lookup(pslots, slot),
                       impl_usage  |-> Lookup(islots, slot)])]
    ELSE coll

\* _check_potential_collisions(proxy_slots, impl_slots): the lists it may
\* return, no entry or one entry for a slot of either dict.
CheckPotentialCollisions(pslots, islots) ==
    {<<>>} \cup {<<[slot |-> s]>> : s \in Keys(pslots) \cup Keys(islots)}

\* The risk level assigned before the result is returned.
AssessRisk(coll) ==
    [coll EXCEPT !.risk_level =
        IF coll.direct_collisions # <<>> THEN "HIGH"
        ELSE IF coll.potential_collisions # <<>> THEN "MEDIUM"
        ELSE @]

CollInit ==
    /\ bytecode = <<>>
    /\ DisIdle
    /\ ExecIdle
    /\ SolveIdle
    /\ MoreIdle
    /\ CfgIdle
    /\ ScanIdle
    /\ CacheIdle
    /\ proxy_slots \in SlotDicts
    /\ impl_slots \in SlotDicts
    /\ ki = 1
    /\ collisions = NoCollisions
    /\ kphase = "direct"

\* One iteration of the loop over proxy_slots.
CollDirect ==
    /\ kphase = "direct"
    /\ ki <= Len(proxy_slots)
    /\ collisions' = DirectCollision(collisions, proxy_slots[ki].slot,
                                     proxy_slots, impl_slots)
    /\ ki' = ki + 1
    /\ UNCHANGED <<bytecode, varsDis, varsMore, varsSolve, varsExec, varsCfg, varsScan,
                   proxy_slots, impl_slots, kphase, varsCache>>

\* Potential collisions, risk level, return.
CollReturn ==
    /\ kphase = "direct"
    /\ ki > Len(proxy_slots)
    /\ \E potential \in CheckPotentialCollisions(proxy_slots, impl_slots) :
          collisions' =
              AssessRisk([collisions EXCEPT !.potential_collisions = potential])
    /\ kphase' = "returned"
    /\ UNCHANGED <<bytecode, varsDis, varsMore, varsSolve, varsExec, varsCfg, varsScan,
                   proxy_slots, impl_slots, ki, varsCache>>

CollNext == CollDirect \/ CollReturn

SpecColl == CollInit /\ [][CollNext]_vars

(***************************************************************************)
(* BytecodeAnalyzer.analyze_bytecode under concurrent requests.  Requests  *)
(* are coroutines on one event loop: a request runs without interruption   *)
(* from one await to the next, and any other request may run in between.   *)
(***************************************************************************)
NumRequests == 2

Requests == 1..NumRequests

Addresses == {"a1", "a2"}

\* The runtime codes the node may hold: the empty code '0x' and STOP.
DeployedCodes == {<<>>, <<0>>}

\* cache_key = f"{contract_address}_{deep_analysis}"
CacheKey(arg) == <<arg.address, arg.deep>>

CacheKeys == Addresses \X BOOLEAN

\* The analysis dict, as far as it depends on the request.
Analysis(code, deep) == [runtime_code |-> code, deep |-> deep]

\* self.cache[cache_key] = analysis
CacheStore(entries, arg, analysis) ==
    [k \in DOMAIN entries \cup {CacheKey(arg)} |->
        IF k = CacheKey(arg) THEN analysis ELSE entries[k]]

NoArg == [address |-> "none", deep |-> FALSE]

\* The result of a request that has not returned.
NoResult == [error |-> "none"]

CacheInit ==
    /\ bytecode = <<>>
    /\ DisIdle
    /\ ExecIdle
    /\ SolveIdle
    /\ MoreIdle
    /\ CfgIdle
    /\ ScanIdle
    /\ CollIdle
    /\ chain \in [Addresses -> DeployedCodes]
    /\ cache = EmptyDict
    /\ tpc = [t \in Requests |-> "idle"]
    /\ targ = [t \in Requests |-> NoArg]
    /\ tcode = [t \in Requests |-> <<>>]
    /\ tresult = [t \in Requests |-> NoResult]
    /\ computations = [k \in CacheKeys |-> 0]

\* A caller starts analyze_bytecode(address, deep).
Request(t, address, deep) ==
    /\ tpc[t] = "idle"
    /\ targ' = [targ EXCEPT ![t] = [address |-> address, deep |-> deep]]
    /\ tpc' = [tpc EXCEPT ![t] = "lookup"]
    /\ UNCHANGED <<bytecode, varsDis, varsMore, varsSolve, varsExec, varsCfg, varsScan, varsColl,
                   chain, cache, tcode, tresult, computations>>

\* The cache check, up to the await of get_code.
CacheLookup(t) ==
    /\ tpc[t] = "lookup"
    /\ IF CacheKey(targ[t]) \in DOMAIN cache
       THEN /\ tresult' = [tresult EXCEPT ![t] = cache[CacheKey(targ[t])]]
            /\ tpc' = [tpc EXCEPT ![t] = "done"]
       ELSE /\ tpc' = [tpc EXCEPT ![t] = "get_code"]
            /\ UNCHANGED tresult
    /\ UNCHANGED <<bytecode, varsDis, varsMore, varsSolve, varsExec, varsCfg, varsScan, varsColl,
                   chain, cache, targ, tcode, computations>>

\* get_code returns; the request awaits _get_creation_code.
GetCode(t) ==
    /\ tpc[t] = "get_code"
    /\ tcode' = [tcode EXCEPT ![t] = chain[targ[t].address]]
    /\ tpc' = [tpc EXCEPT ![t] = "get_creation_code"]
    /\ UNCHANGED <<bytecode, varsDis, varsMore, varsSolve, varsExec, varsCfg, varsScan, varsColl,
                   chain, cache, targ, tresult, computations>>

\* A variant of GetCreationCode that stores the error it returns.
GetCreationCodeCachingError(t) ==
    /\ tpc[t] = "get_creation_code"
    /\ IF tcode[t] = <<>>
       THEN /\ tresult' = [tresult EXCEPT ![t] = [error |-> "No bytecode found"]]
            /\ cache' = CacheStore(cache, targ[t], [error |-> "No bytecode found"])
            /\ tpc' = [tpc EXCEPT ![t] = "done"]
            /\ UNCHANGED computations
       ELSE /\ computations' =
                [computations EXCEPT ![CacheKey(targ[t])] = @ + 1]
            /\ tpc' = [tpc EXCEPT ![t] = "basic"]
            /\ UNCHANGED <<tresult, cache>>
    /\ UNCHANGED <<bytecode, varsDis, varsMore, varsSolve, varsExec, varsCfg, varsScan, varsColl,
                   chain, targ, tcode>>

\* _get_creation_code returns: no bytecode is an error, otherwise the
\* analysis starts and the request awaits its first part.
GetCreationCode(t) ==
    /\ tpc[t] = "get_creation_code"
    /\ IF tcode[t] = <<>>
       THEN /\ tresult' = [tresult EXCEPT ![t] = [error |-> "No bytecode found"]]
            /\ tpc' = [tpc EXCEPT ![t] = "done"]
            /\ UNCHANGED computations
       ELSE /\ computations' =
                [computations EXCEPT ![CacheKey(targ[t])] = @ + 1]
            /\ tpc' = [tpc EXCEPT ![t] = "basic"]
            /\ UNCHANGED tresult
    /\ UNCHANGED <<bytecode, varsDis, varsMore, varsSolve, varsExec, varsCfg, varsScan, varsColl,
                   chain, cache, targ, tcode>>

\* The basic analysis is complete and deep_analysis is off: the result is
\* cached and returned.
BasicAnalysis(t) ==
    /\ tpc[t] = "basic"
    /\ ~targ[t].deep
    /\ cache' = CacheStore(cache, targ[t], Analysis(tcode[t], FALSE))
    /\ tresult' = [tresult EXCEPT ![t] = Analysis(tcode[t], FALSE)]
    /\ tpc' = [tpc EXCEPT ![t] = "done"]
    /\ UNCHANGED <<bytecode, varsDis, varsMore, varsSolve, varsExec, varsCfg, varsScan, varsColl,
                   chain, targ, tcode, computations>>

\* The basic analysis is complete and deep_analysis is on: the first call of
\* the update, _analyze_control_flow(runtime_code, optimize_paths=True),
\* passes a keyword the method does not take, so it raises TypeError before
\* anything is awaited; the except clause returns the error, nothing is
\* cached.
DeepAnalysis(t) ==
    /\ tpc[t] = "basic"
    /\ targ[t].deep
    /\ tresult' = [tresult EXCEPT ![t] = [error |-> "TypeError"]]
    /\ tpc' = [tpc EXCEPT ![t] = "done"]
    /\ UNCHANGED <<bytecode, varsDis, varsMore, varsSolve, varsExec, varsCfg, varsScan, varsColl,
                   chain, cache, targ, tcode, computations>>

\* An awaited call raises: the except clause returns the error.
RequestFails(t) ==
    /\ tpc[t] \in {"get_code", "get_creation_code", "basic"}
    /\ tresult' = [tresult EXCEPT ![t] = [error |-> "error"]]
    /\ tpc' = [tpc EXCEPT ![t] = "done"]
    /\ UNCHANGED <<bytecode, varsDis, varsMore, varsSolve, varsExec, varsCfg, varsScan, varsColl,
                   chain, cache, targ, tcode, computations>>

CacheNext ==
    \E t \in Requests :
        \/ \E address \in Addresses, deep \in BOOLEAN : Request(t, address, deep)
        \/ CacheLookup(t)
        \/ GetCode(t)
        \/ GetCreationCode(t)
        \/ BasicAnalysis(t)
        \/ DeepAnalysis(t)
        \/ RequestFails(t)

SpecCache == CacheInit /\ [][CacheNext]_vars

\* The bytes the disassembler specification is exercised on: a terminator, an
\* unknown opcode, JUMPDEST, PUSH1, PUSH2 and PUSH32.
DisBytes == {0, 12, 91, 96, 97, 127}

DisInit ==
    /\ bytecode \in SeqsUpTo(DisBytes, MaxCodeLen)
    /\ dpc = 0
    /\ stream = <<>>
    /\ dstatus = "run"
    /\ ExecIdle
    /\ AuxIdle

\* Empty input is the only failure of the disassembler.
DisEmpty ==
    /\ dstatus = "run"
    /\ Len(bytecode) = 0
    /\ dstatus' = "EmptyBytecodeError"
    /\ UNCHANGED <<bytecode, varsAux, dpc, stream, varsExec>>

\* One turn of the decode loop: decode at dpc, emit, advance.
DisStep ==
    /\ dstatus = "run"
    /\ Len(bytecode) > 0
    /\ dpc < Len(bytecode)
    /\ LET ins == DecodeInstruction(bytecode, dpc)
       IN  /\ stream' = Append(stream, ins)
           /\ dpc' = NextPc(dpc, ins)
    /\ UNCHANGED <<bytecode, varsAux, dstatus, varsExec>>

\* The loop condition pc < len(bytecode) fails: the stream is complete.
DisDone ==
    /\ dstatus = "run"
    /\ Len(bytecode) > 0
    /\ dpc >= Len(bytecode)
    /\ dstatus' = "done"
    /\ UNCHANGED <<bytecode, varsAux, dpc, stream, varsExec>>

DisNext == DisEmpty \/ DisStep \/ DisDone

SpecDis == DisInit /\ [][DisNext]_vars

Executes(w) ==
    /\ wphase[w] = "run"
    /\ Len(wcur'[w].instructions) = Len(wcur[w].instructions) + 1

C1_StackFaults ==
    /\ [](\A w \in Workers : Len(wstate[w].stack) <= StackLimit)
    /\ [][\A w \in Workers :
             Executes(w) =>
                LET name == Last(wcur'[w].instructions).name
                IN  /\ Pops(name) <= Len(wstate[w].stack)
                    /\ Len(wstate[w].stack) - Pops(name) + Pushes(name)
                          <= StackLimit]_vars

(***************************************************************************)
(* C6: reentrancy rule.  In the order the paths are checked, the           *)
(* Reentrancy findings are exactly one per path whose executed             *)
(* instructions contain an SLOAD of a slot, later a CALL or DELEGATECALL,  *)
(* later an SSTORE of the same slot; the finding sits at such a call, and  *)
(* its severity is at least 0.7 when for some such triple no guard check   *)
(* (a read of another slot) lies between the call and the write.  A path   *)
(* without such a triple has no Reentrancy finding.                        *)
(***************************************************************************)
InstrSlot(instrs, i) ==
    IF i > 1 /\ instrs[i - 1].name = "PUSH"
    THEN ImmValue(instrs[i - 1].imm)
    ELSE 0 - (instrs[i].offset + 1)

PatternTriples(instrs) ==
    {t \in (1..Len(instrs)) \X (1..Len(instrs)) \X (1..Len(instrs)) :
        /\ t[1] < t[2] /\ t[2] < t[3]
        /\ instrs[t[1]].name = "SLOAD"
        /\ instrs[t[2]].name \in {"CALL", "DELEGATECALL"}
        /\ instrs[t[3]].name = "SSTORE"
        /\ InstrSlot(instrs, t[1]) = InstrSlot(instrs, t[3])}

GuardBetween(instrs, t) ==
    \E g \in (t[2] + 1)..(t[3] - 1) :
        /\ instrs[g].name = "SLOAD"
        /\ InstrSlot(instrs, g) # InstrSlot(instrs, t[3])

PathHasPattern(p) == PatternTriples(p.instructions) # {}

IsReentrancy(f) == f.kind = "Reentrancy"

Ident(f) == <<f.kind, f.location>>

C8_MergeIdempotent ==
    [][\A k \in 1..Len(vulnerabilities') :
          k > Len(vulnerabilities) =>
             \A j \in 1..(k - 1) :
                Ident(vulnerabilities'[j]) # Ident(vulnerabilities'[k])]_vars

(***************************************************************************)
(* C9: deduplication.  The report holds at most one finding per            *)
(* (kind, location), and its confidence is the maximum confidence of the   *)
(* findings with that identity merged so far.                              *)
(***************************************************************************)
C9_OnePerIdentity ==
    /\ \A i, j \in 1..Len(vulnerabilities) :
          Ident(vulnerabilities[i]) = Ident(vulnerabilities[j]) => i = j
    /\ \A i \in 1..Len(vulnerabilities) :
          \A f \in merged :
             Ident(f) = Ident(vulnerabilities[i])
                => f.confidence <= vulnerabilities[i].confidence

(***************************************************************************)
(* C2: determinism.  As stated: for a fixed bytecode and budget, whatever  *)
(* the interleaving of the workers, the final finding set is the one of    *)
(* the one-worker, depth-first run with the same budget.                   *)
(***************************************************************************)
FindingSet(fs) == {Ident(fs[i]) : i \in 1..Len(fs)}

\* The one-worker run: entries are taken newest first until the work-list
\* is empty or the budget is spent.
RECURSIVE SequentialRun(_, _, _, _, _)
SequentialRun(code, pend, n, budget, acc) ==
    IF pend = <<>> \/ n >= budget THEN acc
    ELSE LET p == RunPath(code, Last(pend))
         IN  SequentialRun(code,
                SubSeq(pend, 1, Len(pend) - 1) \o p.branches,
                n + 1, budget, acc \cup FindingSet(PathFindings(p)))

ExpectedFindings(code) ==
    UNION {FindingSet(CheckOverflow(RunPath(code, e))
                        \o CheckReentrancy(RunPath(code, e))
                        \o CheckUncheckedCalls(RunPath(code, e))) :
           e \in ReachableEntries(code)}

InstructionStarts(code) == {ins.offset : ins \in Range(Disassemble(code))}

\* The block that build_cfg identified under the given id.
BlockWithId(id) == CHOOSE b \in Range(blocks) : b.id = id

\* The pushed target of the direct jump that ends the block, -1 if the block
\* does not end in a direct jump.
StaticTarget(b) ==
    LET n == Len(b.instructions)
    IN  IF /\ b.instructions[n].name \in {"JUMP", "JUMPI"}
           /\ n >= 2
           /\ b.instructions[n - 1].name = "PUSH"
        THEN ImmValue(b.instructions[n - 1].imm)
        ELSE 0 - 1

FindingAt(kind, o) ==
    \E i \in 1..Len(scan_vulnerabilities) :
        /\ scan_vulnerabilities[i].kind = kind
        /\ scan_vulnerabilities[i].location = o

\* C5: when the scan has returned, an InvalidJumpTarget (ArbitraryJump)
\* finding is reported at an offset exactly when the block whose jump is at
\* that offset has the fault InvalidTarget (IndirectJump) and is reachable
\* from the entry block.
C5_JumpFindings ==
    sphase = "scanned" =>
        LET graph == BuildCfg(bytecode)
            reach == ReachableBlocks(graph)
        IN  \A b \in Range(graph.blocks) :
                LET o == Last(b.instructions).offset
                IN  /\ FindingAt("InvalidJumpTarget", o)
                         <=> (b.fault = "InvalidTarget" /\ b.id \in reach)
                    /\ FindingAt("ArbitraryJump", o)
                         <=> (b.fault = "IndirectJump" /\ b.id \in reach)

(***************************************************************************)
(* Storage collisions.                                                     *)
(***************************************************************************)
\* Number of direct collisions reported for a slot.
DirectCount(slot) ==
    Cardinality({i \in 1..Len(collisions.direct_collisions) :
                    collisions.direct_collisions[i].slot = slot})

\* C7 (as stated): a collision is reported for a slot exactly when the slot
\* is in both dicts with conflicting shapes, once per such slot.
C7_CollisionIffConflictingShapes ==
    kphase = "returned" =>
        \A s \in SlotIds :
            DirectCount(s) =
                IF /\ s \in Keys(proxy_slots) \cap Keys(impl_slots)
                   /\ Lookup(proxy_slots, s) # Lookup(impl_slots, s)
                THEN 1 ELSE 0

\* C7 (amended): a direct collision is reported for a slot exactly when the
\* slot is in both dicts, whatever the two shapes, once per such slot and
\* carrying both usages; a slot of one dict only yields none; the risk level
\* is HIGH exactly when there is a direct collision.  The direct collisions
\* are thereby a function of the two dicts.
C7_CollisionIffInBoth ==
    kphase = "returned" =>
        /\ \A s \in SlotIds :
              DirectCount(s) =
                  IF s \in Keys(proxy_slots) \cap Keys(impl_slots)
                  THEN 1 ELSE 0
        /\ \A i \in 1..Len(collisions.direct_collisions) :
              LET e == collisions.direct_collisions[i]
              IN  /\ e.proxy_usage = Lookup(proxy_slots, e.slot)
                  /\ e.impl_usage = Lookup(impl_slots, e.slot)
        /\ collisions.risk_level = "HIGH"
              <=> Keys(proxy_slots) \cap Keys(impl_slots) # {}

\* The check returned with a collision for a slot that has the same shape in
\* both dicts, while a slot of the proxy alone has none.
C7_Witness ==
    /\ kphase = "returned"
    /\ \E i \in 1..Len(collisions.direct_collisions) :
          collisions.direct_collisions[i].proxy_usage
              = collisions.direct_collisions[i].impl_usage
    /\ \E s \in Keys(proxy_slots) \ Keys(impl_slots) : DirectCount(s) = 0

(***************************************************************************)
(* Result cache.                                                           *)
(***************************************************************************)
\* C10: whatever the interleaving of concurrent requests, the analysis of a
\* cache key is started at most once.
C10_ComputedAtMostOnce ==
    \A k \in CacheKeys : computations[k] <= 1

(***************************************************************************)
(* Errors of a request.                                                    *)
(***************************************************************************)
\* The values analyze_bytecode returns as {'error': ...}.
ErrorResults ==
    {[error |-> e] : e \in {"No bytecode found", "TypeError", "error"}}

\* C11: a request returns an error only for an input error, that is when
\* the bytecode to analyse is empty.
C11_ErrorOnlyForInputError ==
    \A t \in Requests :
        (tpc[t] = "done" /\ tresult[t] \in ErrorResults)
            => chain[targ[t].address] = <<>>

\* The capacity the cache is configured with in the design.
CacheCapacity == 1

\* C13: the number of entries of the result cache never exceeds the
\* configured capacity.
C13_CacheWithinCapacity ==
    Cardinality(DOMAIN cache) <= CacheCapacity

\* C14: the cache is keyed by the raw bytecode: entries computed for the
\* same bytecode are one entry, and a request that returns an analysis
\* returns the one computed for the bytecode it analyses.
C14_KeyedByBytecode ==
    /\ \A k1, k2 \in DOMAIN cache :
          cache[k1].runtime_code = cache[k2].runtime_code => k1 = k2
    /\ \A t \in Requests :
          (tpc[t] = "done" /\ tresult[t] \notin ErrorResults)
              => tresult[t].runtime_code = chain[targ[t].address]

(***************************************************************************)
(* Budget, pruning and termination of the exploration.                     *)
(***************************************************************************)
\* The outcome recorded in a path dict, "none" when it has no such key.
PathStatus(p) == IF "status" \in DOMAIN p THEN p.status ELSE "none"

\* Exploration returned while entries were still pending: the budget was hit.
BudgetHit == xphase \in {"explored", "reported"} /\ pending # <<>>

\* C15: when the budget is hit, no more than max_paths paths were explored
\* and the returned paths record the abandoned ones as Abandoned.
C15_BudgetHitRecorded ==
    BudgetHit =>
        /\ Len(paths) <= max_paths
        /\ \E i \in 1..Len(paths) : PathStatus(paths[i]) = "Abandoned"

(***************************************************************************)
(* Basic blocks.                                                           *)
(***************************************************************************)
\* The offsets at which a block is to start: offset 0, every JUMPDEST, and
\* the offset after every terminator that is not the end of the code.
ExpectedStarts(code) ==
    LET ins == Disassemble(code)
    IN  {0}
          \cup {ins[i].offset : i \in {j \in 1..Len(ins) : ins[j].name = "JUMPDEST"}}
          \cup {ins[i].offset + ins[i].size :
                   i \in {j \in 1..Len(ins) :
                            /\ ins[j].name \in TerminatorNames
                            /\ ins[j].offset + ins[j].size < Len(code)}}

JumpiBranches(code) ==
    LET ins == Disassemble(code)
    IN  {<<ins[i].offset, side>> :
            i \in {j \in 1..Len(ins) : ins[j].name = "JUMPI"},
            side \in {"taken", "fallthrough"}}

\* Programs with a JUMPI:
\*   PUSH1 3; JUMPI; CALL              the target is no JUMPDEST
\*   PUSH1 3; JUMPI; JUMPDEST; CALL    both successors are offset 3
\*   PUSH1 4; JUMPI; STOP; JUMPDEST; CALL   two different successors
\*   JUMPDEST; PUSH1 0; JUMPI          a loop
\*   PUSH1 0; SSTORE; CALL; SELFDESTRUCT    instructions with an effect
SolvePrograms ==
    {<<96, 3, 87, 241>>,
     <<96, 3, 87, 91, 241>>,
     <<96, 4, 87, 0, 91, 241>>,
     <<91, 96, 0, 87>>,
     <<96, 0, 85, 241, 255>>}

SolveCodes ==
    SolvePrograms
       \cup {Flatten(c) : c \in SeqsUpTo(ExecChunks, PoolChunks) \ {<<>>}}

SolveInit ==
    /\ bytecode \in SolveCodes
    /\ DisIdle
    /\ CfgIdle
    /\ ScanIdle
    /\ CollIdle
    /\ CacheIdle
    /\ MoreIdle
    /\ ExploreStart(MaxPaths)
    /\ verdicts \in [JumpiBranches(bytecode) -> Verdicts]
    /\ checked = <<>>
    /\ feasible_paths = <<>>
    /\ infeasible_paths = <<>>
    /\ constraints = EmptyDict
    /\ aphase = "analyze"

\* The values _is_feasible can return on a report of the solver; on a
\* timeout it can also raise (AnalyzeRaises).
IsFeasible(v) ==
    CASE v = "sat" -> {TRUE}
      [] v = "unsat" -> {FALSE}
      [] OTHER -> {TRUE, FALSE}

\* _extract_constraints(path): the constraints of a path, one per branch
\* it ends with.
ExtractConstraints(path) == [instructions |-> path.instructions,
                             branches |-> path.branches]

\* One turn of the loop of analyze_path_conditions.
AnalyzePath ==
    /\ xphase = "explored"
    /\ aphase = "analyze"
    /\ Len(checked) < Len(paths)
    /\ \E v \in Verdicts :
          /\ checked' = Append(checked, v)
          /\ \E feasible \in IsFeasible(v) :
                IF feasible
                THEN /\ feasible_paths' =
                           Append(feasible_paths, paths[Len(checked) + 1])
                     /\ UNCHANGED infeasible_paths
                ELSE /\ infeasible_paths' =
                           Append(infeasible_paths, paths[Len(checked) + 1])
                     /\ UNCHANGED feasible_paths
    /\ constraints' =
          [k \in DOMAIN constraints \cup {paths[Len(checked) + 1].id} |->
              IF k = paths[Len(checked) + 1].id
              THEN ExtractConstraints(paths[Len(checked) + 1])
              ELSE constraints[k]]
    /\ UNCHANGED <<bytecode, varsDis, varsMore, varsExec, varsCfg, varsScan, varsColl,
                   varsCache, verdicts, aphase>>

\* _is_feasible raises on a timeout: the except clause of
\* _symbolic_execution returns the empty dict.
AnalyzeRaises ==
    /\ xphase = "explored"
    /\ aphase = "analyze"
    /\ Len(checked) < Len(paths)
    /\ checked' = Append(checked, "timeout")
    /\ aphase' = "aborted"
    /\ UNCHANGED <<bytecode, varsDis, varsMore, varsExec, varsCfg, varsScan, varsColl,
                   varsCache, verdicts, feasible_paths, infeasible_paths,
                   constraints>>

\* analyze_path_conditions returns the analysis.
AnalyzeDone ==
    /\ xphase = "explored"
    /\ aphase = "analyze"
    /\ Len(checked) = Len(paths)
    /\ aphase' = "analyzed"
    /\ UNCHANGED <<bytecode, varsDis, varsMore, varsExec, varsCfg, varsScan, varsColl,
                   varsCache, verdicts, checked, feasible_paths,
                   infeasible_paths, constraints>>

\* find_vulnerabilities runs after analyze_path_conditions.
SolveCheckPath == aphase = "analyzed" /\ CheckPath

SolveFindDone == aphase = "analyzed" /\ FindDone

SolveNext ==
    \/ Pull(1)
    \/ Step(1)
    \/ Finish(1)
    \/ ExploreDone
    \/ AnalyzePath
    \/ AnalyzeRaises
    \/ AnalyzeDone
    \/ SolveCheckPath
    \/ SolveFindDone

SpecSolve == SolveInit /\ [][SolveNext]_vars

(***************************************************************************)
(* Pruning of branches.                                                    *)
(***************************************************************************)
\* The successors of the JUMPI ins whose branch the solver reports
\* satisfiable.
SatSuccessors(instructions, ins) ==
    LET target == Operand(instructions, ins)
    IN  (IF /\ target \in JumpDests(bytecode)
            /\ Verdict(verdicts, <<ins.offset, "taken">>) = "sat"
         THEN <<target>> ELSE <<>>)
          \o (IF Verdict(verdicts, <<ins.offset, "fallthrough">>) = "sat"
              THEN <<ins.offset + ins.size>> ELSE <<>>)

\* C17: a turn of _execute_path at a JUMPI pushes exactly the successors
\* whose branch the solver reports satisfiable, and does not go on into the
\* fall-through branch when the solver does not report it satisfiable.
C17_PrunedBranchNotExplored ==
    [][\A w \in Workers :
          (/\ wphase[w] = "run"
           /\ wstate[w].pc < Len(bytecode)
           /\ DecodeInstruction(bytecode, wstate[w].pc).name = "JUMPI"
           /\ <<wphase[w], wstate[w], wcur[w]>>' # <<wphase[w], wstate[w], wcur[w]>>)
          => LET ins == DecodeInstruction(bytecode, wstate[w].pc)
             IN  /\ pending' = pending \o SatSuccessors(wcur[w].instructions, ins)
                 /\ Verdict(verdicts, <<ins.offset, "fallthrough">>) # "sat"
                       => wstate'[w].pc # ins.offset + ins.size]_vars


(***************************************************************************)
(* Solver timeouts.                                                        *)
(***************************************************************************)
\* The paths on whose condition the solver timed out.
TimedOut == {i \in 1..Len(checked) : checked[i] = "timeout"}

\* C18: a path on whose condition the solver timed out is put neither among
\* the feasible nor among the infeasible paths, it is recorded as abandoned,
\* and the run is not aborted.
C18_TimeoutIsAbandoned ==
    /\ Len(feasible_paths) + Len(infeasible_paths) + Cardinality(TimedOut)
          = Len(checked)
    /\ \A i \in TimedOut : PathStatus(paths[i]) = "Abandoned"
    /\ aphase # "aborted"


(***************************************************************************)
(* Loops.                                                                  *)
(***************************************************************************)
\* The iteration cap of a loop.
LoopCap == 2

\* The paths that start at offset e and end at a jump back to e: the
\* iterations of the loop at e explored so far.
LoopPaths(e) ==
    {i \in 1..Len(paths) :
        /\ paths[i].instructions # <<>>
        /\ paths[i].instructions[1].offset = e
        /\ e \in Range(paths[i].branches)}

\* C19: a loop is not explored for more iterations than the cap unless a
\* path is recorded as abandoned.
C19_LoopsAreCapped ==
    \A e \in 0..Len(bytecode) :
        Cardinality(LoopPaths(e)) > LoopCap
           => \E i \in 1..Len(paths) : PathStatus(paths[i]) = "Abandoned"


(***************************************************************************)
(* Independence of the execution states.                                   *)
(***************************************************************************)
\* C20: explore_paths has one state dict, from which every path starts.
\* While an entry waits on the work-list, a step of the path under execution
\* changes nothing in the state the waiting entry will start from.
C20_WaitingStateUntouched ==
    [][(pending # <<>> /\ pending' = pending) => wstate' = wstate]_vars


(***************************************************************************)
(* Effects of a path.                                                      *)
(***************************************************************************)
\* The instructions that have an effect.
EffectNames == {"SSTORE", "SLOAD", "CALL", "DELEGATECALL", "SELFDESTRUCT"}

\* The offsets of the instructions with an effect that a path executed.
EffectOffsets(path) ==
    {path.instructions[i].offset :
        i \in {j \in 1..Len(path.instructions) :
                  path.instructions[j].name \in EffectNames}}

\* The offsets recorded in a list of effect records.
RecordedIn(records) == {records[i].pc : i \in 1..Len(records)}

\* The offsets of all effect records of a path.
RecordedOffsets(path) ==
    UNION {RecordedIn(path.effects.storage[s]) : s \in DOMAIN path.effects.storage}
       \cup RecordedIn(path.effects.calls)
       \cup RecordedIn(path.effects.events)

\* Number of effect records of a path.
RECURSIVE SumLen(_, _)
SumLen(f, keys) ==
    IF keys = {} THEN 0
    ELSE LET k == CHOOSE x \in keys : TRUE
         IN  Len(f[k]) + SumLen(f, keys \ {k})

RecordCount(path) ==
    SumLen(path.effects.storage, DOMAIN path.effects.storage)
       + Len(path.effects.calls) + Len(path.effects.events)

\* C21: the effect records of every path returned by _execute_path are, one
\* for one, the instructions with an effect that the path executed.
C21_EffectPerInstruction ==
    \A i \in 1..Len(paths) :
        /\ RecordedOffsets(paths[i]) = EffectOffsets(paths[i])
        /\ RecordCount(paths[i]) = Cardinality(EffectOffsets(paths[i]))


(***************************************************************************)
(* Forks: MultiChainAdapter.create_fork and delete_fork.                   *)
(***************************************************************************)
MaxForks == 4

ChainIds == {1, 56}

BlockNumbers == {"latest", "100"}

\* The empty dict of fork instances.
NoForks == [x \in {} |-> 0]

\* f"fork_{chain_id}_{block_number}_{len(connection.fork_instances)}"
ForkId(chain_id, block_number, n) == <<"fork", chain_id, block_number, n>>

\* The chain id delete_fork reads out of a fork id.
ChainOf(fork_id) == fork_id[2]

ForkIds ==
    {ForkId(c, b, n) : c \in ChainIds, b \in BlockNumbers, n \in 0..MaxForks}

ForkInit ==
    /\ bytecode = <<>>
    /\ DisIdle
    /\ ExecIdle
    /\ CfgIdle
    /\ ScanIdle
    /\ CollIdle
    /\ CacheIdle
    /\ SolveIdle
    /\ StageIdle
    /\ RestIdle
    /\ fork_instances = [c \in ChainIds |-> NoForks]
    /\ forks_created = 0

\* create_fork(chain_id, block_number): the fork instance made by
\* _initialize_fork is stored under the generated id.
CreateFork(chain_id, block_number) ==
    /\ forks_created < MaxForks
    /\ LET instances == fork_instances[chain_id]
           fork_id == ForkId(chain_id, block_number,
                             Cardinality(DOMAIN instances))
       IN  fork_instances' =
              [fork_instances EXCEPT ![chain_id] =
                  [k \in DOMAIN instances \cup {fork_id} |->
                      IF k = fork_id THEN forks_created + 1 ELSE instances[k]]]
    /\ forks_created' = forks_created + 1
    /\ UNCHANGED <<bytecode, varsDis, varsExec, varsCore, varsStage, varsRest>>

\* delete_fork(fork_id): the entry is removed when it exists.
DeleteFork(fork_id) ==
    /\ LET chain_id == ChainOf(fork_id)
           instances == fork_instances[chain_id]
       IN  fork_instances' =
              [fork_instances EXCEPT ![chain_id] =
                  [k \in DOMAIN instances \ {fork_id} |-> instances[k]]]
    /\ UNCHANGED <<bytecode, varsDis, varsExec, varsCore, varsStage, varsRest,
                   forks_created>>

ForkNext ==
    \/ \E c \in ChainIds, b \in BlockNumbers : CreateFork(c, b)
    \/ \E id \in ForkIds : DeleteFork(id)

SpecFork == ForkInit /\ [][ForkNext]_vars

\* C22: create_fork never stores its new instance under the id of a fork
\* that is live: the instance of a live fork is never replaced.
C22_LiveForkKept ==
    [][\A c \in ChainIds :
          \A id \in DOMAIN fork_instances[c] :
              id \in DOMAIN fork_instances'[c]
                 => fork_instances'[c][id] = fork_instances[c][id]]_vars


(***************************************************************************)
(* Stages: MultiStageExecutor.execute_stages.                              *)
(***************************************************************************)
MaxStages == 3

StageIds == {"s1", "s2"}

\* A plausible slip: keys that are present keep their value.
UpdateKeepOld(d, e) ==
    [k \in DOMAIN d \cup DOMAIN e |-> IF k \in DOMAIN d THEN d[k] ELSE e[k]]

\* dict.update
Update(d, e) ==
    [k \in DOMAIN d \cup DOMAIN e |-> IF k \in DOMAIN e THEN e[k] ELSE d[k]]

\* The stages of the input: an id, the ids it depends on, its tools.
StageShapes ==
    [stage_id : StageIds,
     dependencies : {{}, {"s1"}},
     tool_requirements : {<<"foundry">>, <<"foundry", "hardhat">>}]

\* What _execute_with_tool can return for a tool.
ToolResults ==
    {[success |-> FALSE, error |-> "tool failed"]}
       \cup {[success |-> TRUE, gas_used |-> g, state_changes |-> ("x" :> g),
              report |-> g] : g \in {1, 2}}

\* The ExecutionResult execute_stages starts from.
NewResult ==
    [success |-> TRUE, stages_completed |-> <<>>, gas_used |-> 0,
     state_changes |-> EmptyDict, errors |-> <<>>, tool_reports |-> EmptyDict]

\* _execute_stage: the loop over the stage's tools from tool i on, given
\* what each tool returns.
RECURSIVE RunTools(_, _, _, _)
RunTools(tools, outcomes, i, res) ==
    IF i > Len(tools) THEN res
    ELSE IF ~outcomes[i].success
         THEN [res EXCEPT !.success = FALSE, !.error = outcomes[i].error]
         ELSE RunTools(tools, outcomes, i + 1,
                 [res EXCEPT
                    !.gas_used = @ + outcomes[i].gas_used,
                    !.state_changes = Update(@, outcomes[i].state_changes),
                    !.tool_reports = Update(@, tools[i] :> outcomes[i].report)])

ExecuteStage(stage, outcomes) ==
    RunTools(stage.tool_requirements, outcomes, 1,
             [success |-> TRUE, gas_used |-> 0, state_changes |-> EmptyDict,
              tool_reports |-> EmptyDict, error |-> "None"])

\* A plausible slip: a dependency counts as met when it is a stage of the
\* input, completed or not.
VerifyStageDependenciesDeclared(stage, res) ==
    \A dep \in stage.dependencies :
        \E i \in 1..Len(stages) : stages[i].stage_id = dep

\* _verify_stage_dependencies(stage, results)
VerifyStageDependencies(stage, res) ==
    \A dep \in stage.dependencies :
        \E i \in 1..Len(res.stages_completed) : res.stages_completed[i] = dep

StageInit ==
    /\ bytecode = <<>>
    /\ DisIdle
    /\ ExecIdle
    /\ CfgIdle
    /\ ScanIdle
    /\ CollIdle
    /\ CacheIdle
    /\ SolveIdle
    /\ ForkIdle
    /\ RestIdle
    /\ stages \in SeqsUpTo(StageShapes, MaxStages)
    /\ si = 0
    /\ results = NewResult
    /\ executed = <<>>
    /\ stage_results = <<>>
    /\ gphase = "loop"

\* The dependencies of the next stage are not met: error, break, return.
DependenciesNotMet ==
    /\ gphase = "loop"
    /\ si < Len(stages)
    /\ ~VerifyStageDependencies(stages[si + 1], results)
    /\ results' = [results EXCEPT
                     !.errors = Append(@, [stage |-> stages[si + 1].stage_id,
                                           error |-> "Dependencies not met"]),
                     !.success = FALSE]
    /\ gphase' = "returned"
    /\ UNCHANGED <<bytecode, varsDis, varsExec, varsCore, varsFork, varsRest,
                   stages, si,
                   executed, stage_results>>

\* One turn of the loop with the dependencies met: the stage is executed
\* and its result processed.
RunStage ==
    /\ gphase = "loop"
    /\ si < Len(stages)
    /\ VerifyStageDependencies(stages[si + 1], results)
    /\ \E outcomes \in [1..Len(stages[si + 1].tool_requirements) -> ToolResults] :
          LET stage == stages[si + 1]
              stage_result == ExecuteStage(stage, outcomes)
          IN  /\ executed' = Append(executed, stage.stage_id)
              /\ stage_results' = Append(stage_results, stage_result)
              /\ IF stage_result.success
                 THEN /\ results' = [results EXCEPT
                           !.stages_completed = Append(@, stage.stage_id),
                           !.gas_used = @ + stage_result.gas_used,
                           !.state_changes = Update(@, stage_result.state_changes),
                           !.tool_reports = Update(@, stage_result.tool_reports)]
                      /\ si' = si + 1
                      /\ UNCHANGED gphase
                 ELSE /\ results' = [results EXCEPT
                           !.errors = Append(@, [stage |-> stage.stage_id,
                                                 error |-> stage_result.error]),
                           !.success = FALSE]
                      /\ gphase' = "returned"
                      /\ UNCHANGED si
    /\ UNCHANGED <<bytecode, varsDis, varsExec, varsCore, varsFork, varsRest,
                   stages>>

\* The loop is through: return results.
StagesReturn ==
    /\ gphase = "loop"
    /\ si = Len(stages)
    /\ gphase' = "returned"
    /\ UNCHANGED <<bytecode, varsDis, varsExec, varsCore, varsFork, varsRest,
                   stages, si,
                   results, executed, stage_results>>

\* _execute_stage raises (a tool without environment, a tool that raises):
\* the except clause returns a new, empty result with one error.
StageRaises ==
    /\ gphase = "loop"
    /\ si < Len(stages)
    /\ VerifyStageDependencies(stages[si + 1], results)
    /\ executed' = Append(executed, stages[si + 1].stage_id)
    /\ results' = [NewResult EXCEPT !.success = FALSE,
                                    !.errors = <<[error |-> "exception"]>>]
    /\ gphase' = "raised"
    /\ UNCHANGED <<bytecode, varsDis, varsExec, varsCore, varsFork, varsRest,
                   stages, si,
                   stage_results>>

StageNext ==
    \/ DependenciesNotMet
    \/ RunStage
    \/ StagesReturn
    \/ StageRaises

SpecStage == StageInit /\ [][StageNext]_vars


\* The ids of the first n stages of the input.
FirstIds(n) == [i \in 1..n |-> stages[i].stage_id]

LastChange(field, k, n) ==
    LET with == {i \in 1..n : k \in DOMAIN stage_results[i][field]}
        last == CHOOSE i \in with : \A j \in with : j <= i
    IN  stage_results[last][field][k]

\* The dict accumulated from a field of the first n stage results.
Accumulated(field, n) ==
    [k \in UNION {DOMAIN stage_results[i][field] : i \in 1..n} |->
        LastChange(field, k, n)]

RECURSIVE GasOf(_)
GasOf(n) == IF n = 0 THEN 0 ELSE stage_results[n].gas_used + GasOf(n - 1)

\* C24: gas_used, state_changes and tool_reports of the result are the
\* accumulation over the completed stages and nothing else.
C24_OnlyCompletedStagesCount ==
    gphase # "off" =>
        LET n == Len(results.stages_completed)
        IN  /\ n <= Len(stage_results)
            /\ \A i \in 1..n : stage_results[i].success
            /\ results.gas_used = GasOf(n)
            /\ results.state_changes = Accumulated("state_changes", n)
            /\ results.tool_reports = Accumulated("tool_reports", n)

\* A stage failed at its second tool after its first tool used gas, and an
\* earlier stage completed.
C24_Witness ==
    /\ gphase = "returned"
    /\ ~results.success
    /\ Len(results.stages_completed) >= 1
    /\ Len(stage_results) = Len(results.stages_completed) + 1
    /\ stage_results[Len(stage_results)].gas_used > 0
    /\ results.gas_used > 0


(***************************************************************************)
(* Execution order of a batch: BatchAnalyzer._determine_execution_order.   *)
(* Transactions are numbered from 0 as in the source.                      *)
(***************************************************************************)
MaxTxs == 3

\* The transactions of the input, as far as the order looks at them.
OrderTxs ==
    [nonce : {0, 1}, reads : {{}, {"a"}, {"b"}}, writes : {{}, {"a"}, {"b"}}]

\* transactions[i] for the index i of the source.
Tx(txs, i) == txs[i + 1]

\* _depends_on(tx1, tx2)
DependsOn(tx1, tx2) ==
    IF tx1.nonce > tx2.nonce THEN TRUE
    ELSE tx1.reads \cap tx2.writes # {}

\* range(n)
Indices(n) == [k \in 1..n |-> k - 1]

\* _create_dependency_graph(transactions): graph[i] lists the j that
\* transaction i depends on.
CreateDependencyGraph(txs) ==
    [i \in 0..(Len(txs) - 1) |->
        LET dep(j) == i # j /\ DependsOn(Tx(txs, i), Tx(txs, j))
        IN  SelectSeq(Indices(Len(txs)), dep)]

\* visit(vertex) of _topological_sort on the state (visited, temp, order);
\* cycle is set when ValueError("Cycle detected") is raised.
RECURSIVE Visit(_, _, _), VisitEach(_, _, _, _)
Visit(graph, vertex, st) ==
    IF st.cycle THEN st
    ELSE IF vertex \in st.temp THEN [st EXCEPT !.cycle = TRUE]
    ELSE IF vertex \in st.visited THEN st
    ELSE LET inner == VisitEach(graph, graph[vertex], 1,
                                [st EXCEPT !.temp = @ \cup {vertex}])
         IN  IF inner.cycle THEN inner
             ELSE [inner EXCEPT !.temp = @ \ {vertex},
                                !.visited = @ \cup {vertex},
                                !.order = <<vertex>> \o @]

\* The loop of visit over the neighbours from the i-th on.
VisitEach(graph, neighbors, i, st) ==
    IF i > Len(neighbors) THEN st
    ELSE VisitEach(graph, neighbors, i + 1, Visit(graph, neighbors[i], st))

\* _topological_sort(graph): the order, or the keys of the graph when a
\* cycle is detected.
TopologicalSort(graph) ==
    LET keys == Indices(Cardinality(DOMAIN graph))
        done == VisitEach(graph, keys, 1,
                          [visited |-> {}, temp |-> {}, order |-> <<>>,
                           cycle |-> FALSE])
    IN  IF done.cycle THEN keys ELSE done.order

\* _calculate_dependencies(transactions, execution_order)
CalculateDependencies(txs, execution_order) ==
    [tx_index \in Range(execution_order) |->
        LET i == CHOOSE k \in 1..Len(execution_order) :
                    execution_order[k] = tx_index
            dep(other) == DependsOn(Tx(txs, tx_index), Tx(txs, other))
        IN  SelectSeq(SubSeq(execution_order, 1, i - 1), dep)]

OrderInit ==
    /\ bytecode = <<>>
    /\ DisIdle
    /\ ExecIdle
    /\ CfgIdle
    /\ ScanIdle
    /\ CollIdle
    /\ CacheIdle
    /\ SolveIdle
    /\ ForkIdle
    /\ StageIdle
    /\ HistIdle
    /\ ProfitIdle
    /\ transactions \in SeqsUpTo(OrderTxs, MaxTxs)
    /\ order = <<>>
    /\ dependencies = <<>>
    /\ groups = <<>>
    /\ current_group = <<>>
    /\ gi = 0
    /\ bphase = "input"

\* _determine_execution_order(transactions, chain_id)
DetermineExecutionOrder ==
    /\ bphase = "input"
    /\ order' = TopologicalSort(CreateDependencyGraph(transactions))
    /\ bphase' = "ordered"
    /\ UNCHANGED <<bytecode, varsDis, varsExec, varsCore, varsFork, varsStage,
                   varsHist, varsProfit, transactions, dependencies, groups,
                   current_group, gi>>

\* _calculate_dependencies(transactions, execution_order)
CalculateDependenciesOfOrder ==
    /\ bphase = "ordered"
    /\ dependencies' = CalculateDependencies(transactions, order)
    /\ bphase' = "done"
    /\ UNCHANGED <<bytecode, varsDis, varsExec, varsCore, varsFork, varsStage,
                   varsHist, varsProfit, transactions, order, groups,
                   current_group, gi>>

OrderNext ==
    \/ DetermineExecutionOrder
    \/ CalculateDependenciesOfOrder

SpecOrder == OrderInit /\ [][OrderNext]_vars

\* Transaction i depends on transaction j, directly.
Depends(i, j) ==
    i # j /\ DependsOn(Tx(transactions, i), Tx(transactions, j))

\* The transactions reachable from i along at most n dependencies.
RECURSIVE DependsWithin(_, _)
DependsWithin(from, n) ==
    IF n = 0 THEN from
    ELSE DependsWithin(
            from \cup {j \in 0..(Len(transactions) - 1) :
                          \E i \in from : Depends(i, j)}, n - 1)

\* The dependency graph has a cycle.
Cyclic ==
    \E i \in 0..(Len(transactions) - 1) :
        \E j \in 0..(Len(transactions) - 1) :
            /\ Depends(i, j)
            /\ i \in DependsWithin({j}, Len(transactions))

\* Position of a transaction in the order.
Position(i) == CHOOSE k \in 1..Len(order) : order[k] = i

\* C25: the order is a permutation of the indices; without a cycle every
\* transaction comes after every transaction it depends on, with a cycle the
\* order is the input order.
C25_DependenciesFirst ==
    bphase \in {"ordered", "done"} =>
        /\ Len(order) = Len(transactions)
        /\ Range(order) = 0..(Len(transactions) - 1)
        /\ Cyclic => order = Indices(Len(transactions))
        /\ ~Cyclic =>
              \A i, j \in 0..(Len(transactions) - 1) :
                  Depends(i, j) => Position(j) < Position(i)


(***************************************************************************)
(* Grouping: BatchAnalyzer._group_compatible_transactions.                 *)
(***************************************************************************)
\* The transactions of the input, as far as the grouping looks at them.
GroupTxs ==
    [type : {"swap", "transfer"}, to : {"A", "B"}, nonce : {0, 1},
     state_changes : {{}, {"x"}}]

\* _state_conflicts(tx1, tx2)
StateConflicts(tx1, tx2) == tx1.state_changes \cap tx2.state_changes # {}

\* _transactions_conflict(tx1, tx2)
TransactionsConflict(tx1, tx2) ==
    IF tx1.nonce = tx2.nonce THEN TRUE
    ELSE StateConflicts(tx1, tx2)

\* A plausible slip: conflicts are looked for with the first transaction of
\* the group only.
CanAddToGroupFirstOnly(transaction, group) ==
    IF group = <<>> THEN TRUE
    ELSE IF transaction.type # group[1].type THEN FALSE
    ELSE IF transaction.to # group[1].to THEN FALSE
    ELSE ~TransactionsConflict(transaction, group[1])

\* _can_add_to_group(transaction, group)
CanAddToGroup(transaction, group) ==
    IF group = <<>> THEN TRUE
    ELSE IF transaction.type # group[1].type THEN FALSE
    ELSE IF transaction.to # group[1].to THEN FALSE
    ELSE \A i \in 1..Len(group) : ~TransactionsConflict(transaction, group[i])

GroupInit ==
    /\ bytecode = <<>>
    /\ DisIdle
    /\ ExecIdle
    /\ CfgIdle
    /\ ScanIdle
    /\ CollIdle
    /\ CacheIdle
    /\ SolveIdle
    /\ ForkIdle
    /\ StageIdle
    /\ HistIdle
    /\ ProfitIdle
    /\ transactions \in SeqsUpTo(GroupTxs, MaxTxs)
    /\ order = <<>>
    /\ dependencies = <<>>
    /\ groups = <<>>
    /\ current_group = <<>>
    /\ gi = 0
    /\ bphase = "input"

\* One turn of the loop over the transactions.
GroupTransaction ==
    /\ bphase = "input"
    /\ gi < Len(transactions)
    /\ LET tx == transactions[gi + 1]
       IN  IF CanAddToGroup(tx, current_group)
           THEN /\ current_group' = Append(current_group, tx)
                /\ UNCHANGED groups
           ELSE /\ groups' = IF current_group # <<>>
                             THEN Append(groups, current_group) ELSE groups
                /\ current_group' = <<tx>>
    /\ gi' = gi + 1
    /\ UNCHANGED <<bytecode, varsDis, varsExec, varsCore, varsFork, varsStage,
                   varsHist, varsProfit, transactions, order, dependencies,
                   bphase>>

\* After the loop: the last group is added and the groups are returned.
GroupReturn ==
    /\ bphase = "input"
    /\ gi = Len(transactions)
    /\ groups' = IF current_group # <<>>
                 THEN Append(groups, current_group) ELSE groups
    /\ bphase' = "grouped"
    /\ UNCHANGED <<bytecode, varsDis, varsExec, varsCore, varsFork, varsStage,
                   varsHist, varsProfit, transactions, order, dependencies,
                   current_group, gi>>

GroupNext ==
    \/ GroupTransaction
    \/ GroupReturn

SpecGroup == GroupInit /\ [][GroupNext]_vars

\* Two transactions conflict: equal nonce or overlapping state_changes.
Conflict(tx1, tx2) ==
    \/ tx1.nonce = tx2.nonce
    \/ \E c \in tx1.state_changes : c \in tx2.state_changes

\* C26: the groups returned, one after the other, are the input list; no
\* group is empty; the transactions of a group have one type and one target
\* and no two of them conflict.
C26_GroupsPartition ==
    bphase = "grouped" =>
        /\ Flatten(groups) = transactions
        /\ \A g \in 1..Len(groups) :
              /\ groups[g] # <<>>
              /\ \A i, j \in 1..Len(groups[g]) :
                    /\ groups[g][i].type = groups[g][j].type
                    /\ groups[g][i].to = groups[g][j].to
                    /\ i # j => ~Conflict(groups[g][i], groups[g][j])

\* Three transactions were grouped into a group of two and a group of one.
C26_Witness ==
    /\ bphase = "grouped"
    /\ Len(groups) = 2
    /\ \E g \in 1..2 : Len(groups[g]) = 2


(***************************************************************************)
(* What the cache of analyze_bytecode holds.                               *)
(***************************************************************************)
\* Request t is at the cache check and its key is in the cache.
CacheHit(t) == tpc[t] = "lookup" /\ CacheKey(targ[t]) \in DOMAIN cache

\* The step of request t changes the cache.
CacheWritten == cache' # cache

\* C27: the cache never holds an error result, a step that writes the cache
\* writes the result the writing request returns and that result is no
\* error, and a request that finds its key in the cache returns the stored
\* entry at once, without fetching any code from the chain.
C27_CacheHoldsOnlyCompletedAnalyses ==
    /\ [](\A k \in DOMAIN cache : cache[k] \notin ErrorResults)
    /\ [][CacheWritten =>
            \E t \in Requests :
                /\ tpc[t] = "basic"
                /\ tpc'[t] = "done"
                /\ tresult'[t] \notin ErrorResults
                /\ cache' = CacheStore(cache, targ[t], tresult'[t])]_vars
    /\ [][\A t \in Requests :
            (CacheHit(t) /\ tpc'[t] # tpc[t]) =>
                /\ tpc'[t] = "done"
                /\ tresult'[t] = cache[CacheKey(targ[t])]
                /\ tcode' = tcode
                /\ cache' = cache]_vars

\* One request has returned an error, the error was not stored, and a later
\* request for the same key has missed the cache and computed the analysis
\* again, which is now stored.
C27_Witness ==
    \E t, u \in Requests :
        /\ t # u
        /\ CacheKey(targ[t]) = CacheKey(targ[u])
        /\ tpc[t] = "done"
        /\ tresult[t] \in ErrorResults
        /\ tpc[u] = "done"
        /\ tresult[u] \notin ErrorResults
        /\ CacheKey(targ[u]) \in DOMAIN cache
        /\ cache[CacheKey(targ[u])] = tresult[u]


(***************************************************************************)
(* Path ids.                                                               *)
(***************************************************************************)
\* C28: the paths of one exploration have pairwise distinct ids, and when
\* analyze_path_conditions has gone through the paths its constraints map
\* has one entry per path, each holding the constraints of that path.
C28_PathIdsDistinct ==
    /\ \A i, j \in 1..Len(paths) : i # j => paths[i].id # paths[j].id
    /\ \A n \in 1..Len(checked) :
          (\A i \in 1..n : checked[i] # "timeout") =>
              /\ Cardinality(DOMAIN constraints) >= n
              /\ \A i \in 1..n :
                    /\ paths[i].id \in DOMAIN constraints
                    /\ constraints[paths[i].id] = ExtractConstraints(paths[i])


(***************************************************************************)
(* ProtocolAnalyzer._update_analysis_history.                              *)
(***************************************************************************)
MaxAdds == 12

\* if len(self.analysis_history[key]) > 10
HistoryLimit == 10

\* The protocols analysed: one address on two chains.
HistProtocols == {[protocol_address |-> "p1", chain_id |-> 1],
                  [protocol_address |-> "p1", chain_id |-> 56]}

\* key = f"{analysis.protocol_address}_{analysis.chain_id}": an address holds
\* no underscore, so the string determines both parts.
HistoryKey(analysis) == <<analysis.protocol_address, "_", analysis.chain_id>>

\* A variant of the trim that keeps the oldest analyses.
TrimHistoryKeepOldest(history) ==
    IF Len(history) > HistoryLimit
    THEN SubSeq(history, 1, HistoryLimit)
    ELSE history

\* self.analysis_history[key] = self.analysis_history[key][-10:]
TrimHistory(history) ==
    IF Len(history) > HistoryLimit
    THEN SubSeq(history, Len(history) - HistoryLimit + 1, Len(history))
    ELSE history

HistInit ==
    /\ bytecode = <<>>
    /\ DisIdle
    /\ ExecIdle
    /\ CfgIdle
    /\ ScanIdle
    /\ CollIdle
    /\ CacheIdle
    /\ SolveIdle
    /\ ForkIdle
    /\ StageIdle
    /\ BatchIdle
    /\ ProfitIdle
    /\ analysis_history = EmptyDict
    /\ all_added = <<>>

\* _update_analysis_history(analysis); all_added keeps every analysis ever
\* handed in, in order.
UpdateAnalysisHistory(analysis) ==
    /\ Len(all_added) < MaxAdds
    /\ LET key     == HistoryKey(analysis)
           history == IF key \in DOMAIN analysis_history
                      THEN analysis_history[key] ELSE <<>>
       IN analysis_history' =
              [k \in DOMAIN analysis_history \cup {key} |->
                  IF k = key THEN TrimHistory(Append(history, analysis))
                  ELSE analysis_history[k]]
    /\ all_added' = Append(all_added, analysis)
    /\ UNCHANGED <<bytecode, varsDis, varsExec, varsCore, varsFork, varsStage,
                   varsBatch, varsProfit>>

\* The analysis of one protocol; seq stands for the content of the analysis,
\* which differs from one analysis to the next.
HistNext ==
    \E p \in HistProtocols :
        UpdateAnalysisHistory([protocol_address |-> p.protocol_address,
                               chain_id |-> p.chain_id,
                               seq |-> Len(all_added) + 1])

SpecHist == HistInit /\ [][HistNext]_vars

\* The analyses added under a key, oldest first.
AddedFor(key) == SelectSeq(all_added, LAMBDA a : HistoryKey(a) = key)

\* The last n elements of a sequence, or all of it when it is shorter.
LastN(s, n) == IF Len(s) > n THEN SubSeq(s, Len(s) - n + 1, Len(s)) ELSE s

\* C29: the history of every key holds at most 10 analyses, they are the
\* analyses most recently added under that key, in the order they were
\* added, and an update leaves the history of every other key as it was.
C29_HistoryKeepsLastTen ==
    /\ [](\A p \in HistProtocols :
            LET key == HistoryKey(p)
            IN IF key \in DOMAIN analysis_history
               THEN /\ Len(analysis_history[key]) <= 10
                    /\ analysis_history[key] = LastN(AddedFor(key), 10)
               ELSE AddedFor(key) = <<>>)
    /\ [][\A key \in DOMAIN analysis_history :
            HistoryKey(all_added'[Len(all_added')]) # key =>
                /\ key \in DOMAIN analysis_history'
                /\ analysis_history'[key] = analysis_history[key]]_vars

\* A key has received more than 10 analyses and its history holds 10, while
\* another key has a history of its own.
C29_Witness ==
    \E p, q \in HistProtocols :
        /\ HistoryKey(p) \in DOMAIN analysis_history
        /\ HistoryKey(q) \in DOMAIN analysis_history
        /\ p # q
        /\ Len(AddedFor(HistoryKey(p))) > 10
        /\ Len(analysis_history[HistoryKey(p)]) = 10
        /\ Len(analysis_history[HistoryKey(q)]) > 0


(***************************************************************************)
(* ProfitAnalyzer._identify_best_opportunity.  Numbers with a fraction are *)
(* held in tenths: net_profit 10 is 1.0, risk_score 5 is 0.5.              *)
(***************************************************************************)
MaxResults == 2

\* The ProfitResult values handed in: net_profit 0, 1.0 or 2.0, risk_score
\* 0.5 or 0.9, confidence_score 0.5 or 1.0, execution_time 5 or 10 seconds.
ProfitResults ==
    [net_profit : {0, 10, 20}, risk_score : {5, 9},
     confidence_score : {5, 10}, execution_time : {5, 10}]

\* options: the defaults (min_profit '0.1', max_risk 0.8) or a min_profit
\* of 1.5.
ProfitOptions == {[min_profit |-> 1, max_risk |-> 8],
                  [min_profit |-> 15, max_risk |-> 8]}

\* min(1.0, 5.0 / execution_time), in halves; no factor for a time of 0.
TimeFactor(execution_time) ==
    IF execution_time > 0
    THEN IF 10 \div execution_time < 2 THEN 10 \div execution_time ELSE 2
    ELSE 2

\* _calculate_opportunity_score(result), times 5000:
\* net_profit * 0.4 * (1 - risk_score) * confidence_score * time_factor.
CalculateOpportunityScore(result) ==
    result.net_profit * 4 * (10 - result.risk_score)
        * result.confidence_score * TimeFactor(result.execution_time)

\* r.net_profit >= min_profit and r.risk_score <= max_risk
IsViable(result, opts) ==
    result.net_profit >= opts.min_profit /\ result.risk_score <= opts.max_risk

\* max(scored_results, key=lambda x: x[0])[1]: the first result with the
\* greatest score.
MaxScored(scored_results) ==
    LET top == CHOOSE i \in 1..Len(scored_results) :
                   /\ \A j \in 1..Len(scored_results) :
                         scored_results[j][1] <= scored_results[i][1]
                   /\ \A j \in 1..(i - 1) :
                         scored_results[j][1] < scored_results[i][1]
    IN scored_results[top]

\* _identify_best_opportunity(results, opts): the dict returned.  score is
\* the variable of the scoring loop, which holds the score of the last
\* viable result when the loop is over.
IdentifyBestOpportunity(all_results, opts) ==
    IF all_results = <<>> THEN EmptyDict
    ELSE LET viable_results ==
                 SelectSeq(all_results, LAMBDA r : IsViable(r, opts))
             scored_results ==
                 [i \in 1..Len(viable_results) |->
                     <<CalculateOpportunityScore(viable_results[i]),
                       viable_results[i]>>]
         IN IF viable_results = <<>> THEN EmptyDict
            ELSE [profit_result |-> MaxScored(scored_results)[2],
                  score |-> scored_results[Len(scored_results)][1],
                  execution_priority |-> "high",
                  optimization_suggestions |-> <<>>]

ProfitInit ==
    /\ bytecode = <<>>
    /\ DisIdle
    /\ ExecIdle
    /\ CfgIdle
    /\ ScanIdle
    /\ CollIdle
    /\ CacheIdle
    /\ SolveIdle
    /\ ForkIdle
    /\ StageIdle
    /\ BatchIdle
    /\ HistIdle
    /\ profit_results \in SeqsUpTo(ProfitResults, MaxResults)
    /\ options \in ProfitOptions
    /\ best = EmptyDict
    /\ pphase = "call"

\* The call of _identify_best_opportunity returns.
IdentifyBest ==
    /\ pphase = "call"
    /\ best' = IdentifyBestOpportunity(profit_results, options)
    /\ pphase' = "returned"
    /\ UNCHANGED <<bytecode, varsDis, varsExec, varsCore, varsFork, varsStage,
                   varsBatch, varsHist, profit_results, options>>

ProfitNext == IdentifyBest

SpecProfit == ProfitInit /\ [][ProfitNext]_vars

\* The positions of the viable results of the input.
ViableAt == {i \in 1..Len(profit_results) : IsViable(profit_results[i], options)}

\* C30: with a viable result in the input, profit_result is a viable result
\* whose opportunity score is the greatest among the viable ones and score
\* is the score of that profit_result; without one the dict returned is
\* empty.
C30_BestAndItsScore ==
    pphase = "returned" =>
        IF ViableAt = {}
        THEN best = EmptyDict
        ELSE /\ {"profit_result", "score"} \subseteq DOMAIN best
             /\ \E i \in ViableAt : best.profit_result = profit_results[i]
             /\ \A i \in ViableAt :
                   CalculateOpportunityScore(profit_results[i])
                       <= CalculateOpportunityScore(best.profit_result)
             /\ best.score = CalculateOpportunityScore(best.profit_result)

====
